---- MODULE Spec2Model ----
(***************************************************************************)
(* The screener compiler: ComputeGraph (src/src/compiler/compute-graph.ts), *)
(* the helpers of src/src/compiler/index.ts and the ClickHouse QueryBuilder *)
(* (src/unnamed/part_002), as a state machine over one compile call.        *)
(*                                                                         *)
(* A node id `<type>_<n>` is the pair <<type, n>>; IdStr renders it.  The   *)
(* graph is the sequence of its node records in insertion order, which is   *)
(* the iteration order of the JavaScript object that holds them.  An        *)
(* optional field is a sequence of length 0 or 1; an absent alias is "".    *)
(***************************************************************************)
EXTENDS Integers, Sequences, FiniteSets, TLC

VARIABLES
    request,           \* the UserQuery value as it was received
    userQuery,         \* the UserQuery object handed to the compiler (it is mutated)
    nodes,             \* ComputeGraph.nodes, in insertion order
    nodeTypesCounter,  \* ComputeGraph.nodeTypesCounter
    parameters,        \* ComputeGraph.parameters: parameters[i] is the value of param_i
    pc,                \* position of the compile call
    error,             \* "" or the error the call failed with
    risky,             \* whether some optimize() call so far was optimize(true)
    optimizeCalls,     \* number of optimize() calls made on the graph
    nodesBefore,       \* the graph as it was when the last stage started
    stages,            \* the graph as the constructor had it before and after inferJoins,
                       \* and as the last optimize() had it after each of its first
                       \* five passes
    sqlOut,            \* result of QueryBuilder.translateToSQL
    secondRun,         \* result of a second buildQuery() of an equal UserQuery value
    execOrder,         \* result of the last getExecutionOrder() call
    calls,             \* the calls made by hand on a graph that reached createParameter()
    instances,         \* two ComputeGraph objects alive at once, each with its own fields
    config             \* ComputeGraph.config: the QueryBuilderConfig given to the constructor

\* With([x \in {value} |-> body]) is body with x standing for value: a `const`
With(f) == f[CHOOSE x \in DOMAIN f : TRUE]

vars == <<request, userQuery, nodes, nodeTypesCounter, parameters, pc, error, risky,
          optimizeCalls, nodesBefore, stages, sqlOut, secondRun, execOrder, calls,
          instances, config>>

(***************************************************************************)
(* Sequence helpers (Array.prototype methods)                              *)
(***************************************************************************)
Range(s) == {s[i] : i \in 1..Len(s)}

Includes(s, x) == \E i \in 1..Len(s) : s[i] = x

\* the array that map() builds: a sequence given element by element
Array(f) == f \o <<>>

MapSeq(F(_), s) == Array([i \in 1..Len(s) |-> F(s[i])])

\* [...new Set(s)]: first occurrences, in order
Unique(s) ==
    LET keep(i) == \A j \in 1..(i - 1) : s[j] # s[i]
        F[i \in 0..Len(s)] ==
            IF i = 0 THEN <<>>
            ELSE IF keep(i) THEN Append(F[i - 1], s[i]) ELSE F[i - 1]
    IN F[Len(s)]

\* s.filter(x => x !== v)
Without(s, v) == SelectSeq(s, LAMBDA x : x # v)

\* s.flatMap over a sequence of sequences
Flatten(ss) ==
    LET F[i \in 0..Len(ss)] == IF i = 0 THEN <<>> ELSE F[i - 1] \o ss[i]
    IN F[Len(ss)]

(***************************************************************************)
(* Node ids and their string order                                         *)
(***************************************************************************)
NodeTypes == {"source", "filter", "composite-filter", "projection", "aggregation",
              "expression", "sort", "limit", "join", "aggregate"}

\* type.replace('-', '_')
TypePrefix(type) == IF type = "composite-filter" THEN "composite_filter" ELSE type

\* `${type.replace('-', '_')}_${count}`
IdStr(id) == TypePrefix(id[1]) \o "_" \o ToString(id[2])

\* id.startsWith(prefix + '_'), for the prefixes the emitter tests
StartsWith(id, prefix) == TypePrefix(id[1]) = prefix

\* Position of an id prefix in the UTF-16 order of strings; no prefix is a
\* prefix of another one, so the prefix decides whenever two types differ.
PrefixRank(type) ==
    CASE type = "aggregate" -> 0
      [] type = "aggregation" -> 1
      [] type = "composite-filter" -> 2
      [] type = "expression" -> 3
      [] type = "filter" -> 4
      [] type = "join" -> 5
      [] type = "limit" -> 6
      [] type = "projection" -> 7
      [] type = "sort" -> 8
      [] type = "source" -> 9

RECURSIVE Digits(_)
Digits(n) == IF n < 10 THEN <<n>> ELSE Append(Digits(n \div 10), n % 10)

\* a < b for two decimal numerals compared as strings ("10" < "2")
RECURSIVE DigitsLess(_, _)
DigitsLess(a, b) ==
    IF b = <<>> THEN FALSE
    ELSE IF a = <<>> THEN TRUE
    ELSE IF Head(a) # Head(b) THEN Head(a) < Head(b)
    ELSE DigitsLess(Tail(a), Tail(b))

\* String(a) < String(b) for two node ids
IdLess(a, b) ==
    IF a[1] # b[1] THEN PrefixRank(a[1]) < PrefixRank(b[1])
    ELSE DigitsLess(Digits(a[2]), Digits(b[2]))

\* Array.prototype.sort() with the default comparator, on a list of node ids
\* (a stable insertion sort: equal ids keep their order)
RECURSIVE InsertSorted(_, _)
InsertSorted(s, x) ==
    IF s = <<>> THEN <<x>>
    ELSE IF IdLess(x, Head(s)) THEN <<x>> \o s
    ELSE <<Head(s)>> \o InsertSorted(Tail(s), x)

SortIds(s) ==
    LET F[i \in 0..Len(s)] == IF i = 0 THEN <<>> ELSE InsertSorted(F[i - 1], s[i])
    IN F[Len(s)]

RECURSIVE JoinStr(_, _)
\* strs.join(sep)
JoinStr(strs, sep) ==
    IF strs = <<>> THEN ""
    ELSE IF Len(strs) = 1 THEN strs[1]
    ELSE strs[1] \o sep \o JoinStr(Tail(strs), sep)

\* ids.join(',')
JoinIds(ids) == JoinStr(Array([i \in 1..Len(ids) |-> IdStr(ids[i])]), ",")

(***************************************************************************)
(* UserQuery values (src/unnamed/part_003, the global type declarations)   *)
(***************************************************************************)
NoAlias == ""

\* a constant's value: number | string | boolean | array
NumV(n)  == [vt |-> "number",  num |-> n, str |-> "", bool |-> FALSE, elems |-> <<>>]
StrV(x)  == [vt |-> "string",  num |-> 0, str |-> x,  bool |-> FALSE, elems |-> <<>>]
BoolV(b) == [vt |-> "boolean", num |-> 0, str |-> "", bool |-> b,     elems |-> <<>>]
ArrV(es) == [vt |-> "array",   num |-> 0, str |-> "", bool |-> FALSE, elems |-> es]

BlankExpression ==
    [type |-> "", alias |-> NoAlias, metric |-> "", value |-> NumV(0),
     operator |-> "", operands |-> <<>>, target |-> <<>>, aggregation |-> "",
     time_range |-> <<>>, filter |-> <<>>]

MetricExpr(m) == [BlankExpression EXCEPT !.type = "metric", !.metric = m]

MetricExprF(m, f) == [MetricExpr(m) EXCEPT !.filter = <<f>>]

ConstantExpr(v) == [BlankExpression EXCEPT !.type = "constant", !.value = v]

MathExpr(op, operands, alias) ==
    [BlankExpression EXCEPT !.type = "math", !.operator = op,
                            !.operands = operands, !.alias = alias]

AggregateExpr(agg, target, tr, alias) ==
    [BlankExpression EXCEPT !.type = "aggregate", !.aggregation = agg,
                            !.target = <<target>>, !.time_range = tr, !.alias = alias]

RelativeRange(d, u) == [type |-> "relative", duration |-> d, unit |-> u, from |-> 0, to |-> 0]
TradingRange(d, u)  == [type |-> "trading",  duration |-> d, unit |-> u, from |-> 0, to |-> 0]
AbsoluteRange(f, t) == [type |-> "absolute", duration |-> 0, unit |-> "", from |-> f, to |-> t]

SimpleFilter(target, op, value) ==
    [type |-> "simple", target |-> target, op |-> op, value |-> value,
     operator |-> "", filters |-> <<>>]

CompositeFilter(operator, filters) ==
    [type |-> "composite", target |-> BlankExpression, op |-> "", value |-> BlankExpression,
     operator |-> operator, filters |-> filters]

\* a group_by entry: a dimension name, or {dimension, limit, expression?}
GroupDim(d) == [kind |-> "dimension", dimension |-> d, limit |-> 0, expression |-> <<>>]
GroupTopN(d, n, e) == [kind |-> "topn", dimension |-> d, limit |-> n, expression |-> e]

SortCrit(e, dir) == [expression |-> e, direction |-> dir]

\* limit 0 stands for an absent limit (the schema accepts positive limits only)
UserQueryOf(f, g, s, l) == [filter |-> f, group_by |-> g, sort_by |-> s, limit |-> l]

(***************************************************************************)
(* DEFAULT_CONFIG (src/settings.ts is not among the sources: the tables    *)
(* and their keys are those section 6 of the specification gives)          *)
(***************************************************************************)
DEFAULT_CONFIG ==
    [tables |->
        [t \in {"tickers", "daily_agg"} |->
            IF t = "tickers"
            THEN [name |-> "tickers", timeColumn |-> "", primaryKeys |-> <<"ticker">>,
                  alwaysIncludeColumns |-> <<>>]
            ELSE [name |-> "daily_agg", timeColumn |-> "date", primaryKeys |-> <<"ticker">>,
                  alwaysIncludeColumns |-> <<"ticker", "date">>]],
     columnMappings |->
        [m \in {"ticker", "sector", "country", "close", "volume"} |->
            IF m \in {"ticker", "sector", "country"}
            THEN [table |-> "tickers", column |-> m]
            ELSE [table |-> "daily_agg", column |-> m]]]

(***************************************************************************)
(* ComputeNode records                                                     *)
(***************************************************************************)
NoMetadata ==
    [isParameter |-> FALSE, isGrouping |-> FALSE, isGrouped |-> FALSE,
     groupDimension |-> "", limit |-> 0, isRequiredProjection |-> FALSE,
     hasParameter |-> FALSE]

BlankNode ==
    [id |-> <<"", 0>>, type |-> "", inputs |-> <<>>, isTerminal |-> FALSE,
     table |-> "", timeColumn |-> "", columns |-> <<>>, expression |-> <<>>,
     alias |-> NoAlias, condition |-> <<>>, operator |-> "", criteria |-> <<>>,
     limit |-> 0, joinConditions |-> <<>>, metadata |-> NoMetadata]

\* one side of a filter condition: {input, metric} | {parameter}
InputSide(id, metric) == [kind |-> "input", input |-> id, metric |-> metric, parameter |-> ""]
ParameterSide(p) == [kind |-> "parameter", input |-> <<"", 0>>, metric |-> "", parameter |-> p]

\* a sort criterion's expression: a NodeID or, once inlined, a literal
NodeRef(id) == [kind |-> "node", node |-> id, literal |-> ""]
LiteralRef(x) == [kind |-> "literal", node |-> <<"", 0>>, literal |-> x]

\* a projection column {name, alias?, sourceNode?}
Column(name, alias, src) == [name |-> name, alias |-> alias, sourceNode |-> src]

(***************************************************************************)
(* ComputeGraph: node management                                           *)
(***************************************************************************)
HasNode(ns, id) == \E i \in 1..Len(ns) : ns[i].id = id

IndexOfNode(ns, id) == CHOOSE i \in 1..Len(ns) : ns[i].id = id

\* this.nodes[id], for an id that is present
NodeOf(ns, id) == ns[IndexOfNode(ns, id)]

NodeIds(ns) == Array([i \in 1..Len(ns) |-> ns[i].id])

\* this.nodes[node.id] = node: an existing key keeps its place, a new one is last
PutNode(ns, node) ==
    IF HasNode(ns, node.id)
    THEN [ns EXCEPT ![IndexOfNode(ns, node.id)] = node]
    ELSE Append(ns, node)

\* delete this.nodes[id]
DeleteNode(ns, id) == SelectSeq(ns, LAMBDA n : n.id # id)

\* the fresh graph of the constructor
nodeTypesCounterInit == [t \in NodeTypes |-> 0]

\* generateNodeID(type): the id it returns
generateNodeID(counter, type) == <<type, counter[type] + 1>>

\* a generateNodeID that hands out an id without counting it
CounterKept(counter, type) == counter

\* generateNodeID(type): the counter it leaves
CounterAfter(counter, type) == [counter EXCEPT ![type] = @ + 1]

addNode(ns, node) ==
    With([put \in {PutNode(ns, node)} |->
    With([cleared \in {Array([i \in 1..Len(put) |->
             IF Includes(node.inputs, put[i].id)
             THEN [put[i] EXCEPT !.isTerminal = FALSE]
             ELSE put[i]])} |->
    Array([i \in 1..Len(cleared) |->
        IF cleared[i].id = node.id
        THEN [cleared[i] EXCEPT !.isTerminal = TRUE]
        ELSE cleared[i]])])])

\* the flag removeNode gives an input of the node it removes: the search for a
\* remaining reference runs while the removed node is still in the map
TerminalAfterRemove(ns, inputId) ==
    ~(\E i \in 1..Len(ns) : Includes(ns[i].inputs, inputId))

\* node.inputs.forEach(inputId => ...) of removeNode, from the k-th input on
RECURSIVE ReflagInputs(_, _, _)
ReflagInputs(ns, inputs, k) ==
    IF k > Len(inputs) THEN ns
    ELSE IF ~HasNode(ns, inputs[k]) THEN ReflagInputs(ns, inputs, k + 1)
    ELSE With([cur \in {[ns EXCEPT ![IndexOfNode(ns, inputs[k])].isTerminal =
                             TerminalAfterRemove(ns, inputs[k])]} |->
         ReflagInputs(cur, inputs, k + 1)])

removeNode(ns, id) ==
    IF ~HasNode(ns, id) THEN ns
    ELSE With([flagged \in {ReflagInputs(ns, NodeOf(ns, id).inputs, 1)} |->
         DeleteNode(flagged, id)])

findDependentNodes(ns, nodeId) == SelectSeq(ns, LAMBDA n : Includes(n.inputs, nodeId))

\* a side that names the new node under the new node's id, whatever its metric
ReplaceSideById(side, oldId, newId, oldAlias) ==
    IF side.kind = "input" /\ side.input = oldId
    THEN InputSide(newId, IdStr(newId))
    ELSE side

\* one side of a condition as replaceNodeID rewrites it
ReplaceSide(side, oldId, newId, oldAlias) ==
    IF side.kind = "input" /\ side.input = oldId
    THEN InputSide(newId, IF oldAlias # <<>> THEN oldAlias[1] ELSE side.metric)
    ELSE side

ReplaceInNode(node, oldId, newId, oldAlias) ==
    [node EXCEPT
        !.inputs = Array([i \in 1..Len(@) |-> IF @[i] = oldId THEN newId ELSE @[i]]),
        !.condition = Array([i \in 1..Len(@) |->
                          [left |-> ReplaceSide(@[i].left, oldId, newId, oldAlias),
                           right |-> ReplaceSide(@[i].right, oldId, newId, oldAlias),
                           op |-> @[i].op]]),
        !.criteria = Array([i \in 1..Len(@) |->
                         IF @[i].expression = NodeRef(oldId)
                         THEN [@[i] EXCEPT !.expression = NodeRef(newId)]
                         ELSE @[i]]),
        !.columns = Array([i \in 1..Len(@) |->
                        IF @[i].sourceNode = <<oldId>>
                        THEN [@[i] EXCEPT !.sourceNode = <<newId>>]
                        ELSE @[i]])]

replaceNodeID(ns, oldId, newId, oldAlias) ==
    Array([i \in 1..Len(ns) |->
        IF ns[i].id = newId THEN ns[i] ELSE ReplaceInNode(ns[i], oldId, newId, oldAlias)])

(***************************************************************************)
(* getExecutionOrder: depth-first post-order with cycle detection          *)
(***************************************************************************)
VisitInit == [ordered |-> <<>>, visited |-> {}, processing |-> {}, err |-> ""]

RECURSIVE visit(_, _, _)
RECURSIVE VisitInputs(_, _, _, _)

\* visit() with orderedNodes.push(node) moved before the loop over the inputs
visitPushFirst(ns, st, nodeId) ==
    IF st.err # "" THEN st
    ELSE IF nodeId \in st.processing THEN [st EXCEPT !.err = "CycleDetected"]
    ELSE IF nodeId \in st.visited THEN st
    ELSE IF ~HasNode(ns, nodeId) THEN [st EXCEPT !.err = "NodeNotFound"]
    ELSE With([node \in {NodeOf(ns, nodeId)} |->
         With([st1 \in {[st EXCEPT !.processing = @ \cup {nodeId},
                                   !.ordered = Append(@, nodeId)]} |->
         With([st2 \in {VisitInputs(ns, st1, node.inputs, 1)} |->
         IF st2.err # "" THEN st2
         ELSE [st2 EXCEPT !.processing = @ \ {nodeId},
                          !.visited = @ \cup {nodeId}]])])])

\* visit() without processing.delete(nodeId)
visitKeepProcessing(ns, st, nodeId) ==
    IF st.err # "" THEN st
    ELSE IF nodeId \in st.processing THEN [st EXCEPT !.err = "CycleDetected"]
    ELSE IF nodeId \in st.visited THEN st
    ELSE IF ~HasNode(ns, nodeId) THEN [st EXCEPT !.err = "NodeNotFound"]
    ELSE With([node \in {NodeOf(ns, nodeId)} |->
         With([st1 \in {[st EXCEPT !.processing = @ \cup {nodeId}]} |->
         With([st2 \in {VisitInputs(ns, st1, node.inputs, 1)} |->
         IF st2.err # "" THEN st2
         ELSE [st2 EXCEPT !.visited = @ \cup {nodeId},
                          !.ordered = Append(@, nodeId)]])])])

visit(ns, st, nodeId) ==
    IF st.err # "" THEN st
    ELSE IF nodeId \in st.processing THEN [st EXCEPT !.err = "CycleDetected"]
    ELSE IF nodeId \in st.visited THEN st
    ELSE IF ~HasNode(ns, nodeId) THEN [st EXCEPT !.err = "NodeNotFound"]
    ELSE With([node \in {NodeOf(ns, nodeId)} |->
         With([st1 \in {[st EXCEPT !.processing = @ \cup {nodeId}]} |->
         With([st2 \in {VisitInputs(ns, st1, node.inputs, 1)} |->
         IF st2.err # "" THEN st2
         ELSE [st2 EXCEPT !.processing = @ \ {nodeId},
                          !.visited = @ \cup {nodeId},
                          !.ordered = Append(@, nodeId)]])])])

VisitInputs(ns, st, inputs, k) ==
    IF k > Len(inputs) \/ st.err # "" THEN st
    ELSE IF ~HasNode(ns, inputs[k]) THEN [st EXCEPT !.err = "DanglingReference"]
    ELSE With([st1 \in {visit(ns, st, inputs[k])} |->
         VisitInputs(ns, st1, inputs, k + 1)])

\* visit() on each id of a list, in order
RECURSIVE VisitAll(_, _, _)
VisitAll(ns, st, ids) ==
    IF ids = <<>> \/ st.err # "" THEN st
    ELSE With([st1 \in {visit(ns, st, Head(ids))} |->
         VisitAll(ns, st1, Tail(ids))])

\* [err, ordered]: the error thrown ("" when none) and the ids of the result
getExecutionOrder(ns) ==
    With([sourceNodes \in {NodeIds(SelectSeq(ns, LAMBDA n : n.type = "source"))} |->
    With([st1 \in {VisitAll(ns, VisitInit, sourceNodes)} |->
    With([st2 \in {VisitAll(ns, st1, NodeIds(ns))} |->
    [err |-> st2.err, ordered |-> IF st2.err = "" THEN st2.ordered ELSE <<>>]])])])

(***************************************************************************)
(* Parameter table                                                         *)
(***************************************************************************)
\* op?.includes('LIKE'), over the operator names of the service
IncludesLIKE(op) == op # <<>> /\ op[1] \in {"LIKE", "NOT LIKE"}

\* `{${paramName}: ${type}}`
Placeholder(i, type) == "{param_" \o ToString(i) \o ": " \o type \o "}"

\* every element taken for a number
TypeOfNumber(v) == "number"

\* typeof v, for an element of an array value
TypeOf(v) == v.vt

\* the assignment made to the name param_1 whatever n is
SetParameterFirst(params, n, value) ==
    [k \in DOMAIN params \cup {1} |-> IF k = 1 THEN value ELSE params[k]]

\* this.parameters[`param_${n}`] = value: the entry of that name is written,
\* the others are kept (the table is a function of the numbers of its names)
SetParameter(params, n, value) ==
    [k \in DOMAIN params \cup {n} |-> IF k = n THEN value ELSE params[k]]

\* createParameter(value, op): [parameters, out, err] where out is the string
\* it returns and err the error it throws
createParameter(params, value0, op) ==
    LET n == Cardinality(DOMAIN params) + 1
        value == IF IncludesLIKE(op) /\ value0.vt = "string"
                 THEN StrV("%" \o value0.str \o "%")
                 ELSE value0
        keep(out) == [parameters |-> params, out |-> out, err |-> ""]
        store(type) == [parameters |-> SetParameter(params, n, value),
                        out |-> Placeholder(n, type), err |-> ""]
    IN CASE value.vt = "number" -> keep(ToString(value.num))
         [] value.vt = "boolean" -> keep(IF value.bool THEN "1" ELSE "0")
         [] value.vt = "string" -> store("String")
         [] value.vt = "array" ->
              IF Len(value.elems) = 0 THEN keep("[]")
              ELSE IF \E i \in 1..Len(value.elems) :
                          TypeOf(value.elems[i]) # TypeOf(value.elems[1])
              THEN [parameters |-> params, out |-> "", err |-> "MixedTypeArray"]
              ELSE CASE TypeOf(value.elems[1]) = "string" -> store("Array(String)")
                     [] TypeOf(value.elems[1]) = "number" -> store("Array(Float64)")
                     [] TypeOf(value.elems[1]) = "boolean" -> store("Array(Boolean)")
                     [] OTHER -> [parameters |-> params, out |-> "",
                                  err |-> "UnsupportedArrayType"]

(***************************************************************************)
(* Aliases (src/src/compiler/index.ts)                                     *)
(***************************************************************************)
ALIAS_MAX_LENGTH == 65

\* s.slice(0, n)
Slice(s, n) == IF Len(s) > n THEN SubSeq(s, 1, n) ELSE s

\* the YYYYMMDD form of a UNIX time is left symbolic: the day number
DayStamp(seconds) == ToString(seconds \div 86400)

timeRangeToAlias(range) ==
    IF range.type \in {"relative", "trading"}
    THEN ToString(range.duration) \o range.unit
    ELSE IF range.type = "absolute"
    THEN DayStamp(range.from) \o "_" \o DayStamp(range.to)
    ELSE ""

\* Math.random().toString(36).slice(2, 6): the k-th draw of the generator
\* started from a given seed
RandomStream(seed, k) == "s" \o ToString(seed) \o "n" \o ToString(k)

\* generateAlias() without an expression: `col_${Math.random()...}`
RandomAlias(rnd) == "col_" \o rnd

\* generateAlias(expr) for an expression that is present
RECURSIVE generateAlias(_)
generateAlias(expr) ==
    IF expr.alias # NoAlias THEN expr.alias
    ELSE CASE expr.type = "metric" -> expr.metric
           [] expr.type = "constant" -> "constant"
           [] expr.type = "aggregate" ->
                With([base \in {expr.aggregation \o "_" \o generateAlias(expr.target[1])} |->
                   IF expr.time_range # <<>>
                   THEN base \o "_" \o timeRangeToAlias(expr.time_range[1])
                   ELSE base])
           [] expr.type = "math" ->
                Slice(expr.operator \o "_" \o
                      JoinStr(Array([i \in 1..Len(expr.operands) |->
                                  generateAlias(expr.operands[i])]), "_"),
                      ALIAS_MAX_LENGTH)

(***************************************************************************)
(* IR builder.  A graph under construction is G = [nodes, counter,         *)
(* parameters, err]; a lowering step returns [g, id, x]: the graph, the id *)
(* of the node it made and its argument as the step left it (an aggregate  *)
(* loses its filter field).  Once err is set nothing more happens.         *)
(***************************************************************************)
NoId == <<"", 0>>

NewGraph == [nodes |-> <<>>, counter |-> nodeTypesCounterInit, parameters |-> <<>>,
             err |-> ""]

Fail(g, e) == [g EXCEPT !.err = e]

\* this.addNode({id: this.generateNodeID(idType), ...node}): [g, id]
AddFresh(g, idType, node) ==
    With([id \in {generateNodeID(g.counter, idType)} |->
       [g |-> [g EXCEPT !.nodes = addNode(g.nodes, [node EXCEPT !.id = id]),
                        !.counter = CounterAfter(g.counter, idType)],
        id |-> id]])

SourceNodesOf(ns) == SelectSeq(ns, LAMBDA n : n.type = "source")

\* findOrCreateSourceNode(table): [g, id]
findOrCreateSourceNode(g, cfg, table) ==
    With([existing \in {SelectSeq(g.nodes, LAMBDA n : n.type = "source" /\ n.table = table)} |->
    IF existing # <<>> THEN [g |-> g, id |-> existing[1].id]
    ELSE AddFresh(g, "source",
             [BlankNode EXCEPT !.type = "source", !.table = table,
                 !.timeColumn = IF table \in DOMAIN cfg.tables
                                THEN cfg.tables[table].timeColumn ELSE ""])])

\* getMetricName of processFilter
getMetricName(node) ==
    IF node.type = "projection"
    THEN IF node.columns # <<>>
         THEN IF node.columns[1].alias # NoAlias THEN node.columns[1].alias
              ELSE node.columns[1].name
         ELSE IdStr(node.id)
    ELSE IdStr(node.id)

RECURSIVE processExpression(_, _, _)
RECURSIVE processFilter(_, _, _, _)
RECURSIVE ProcessOperands(_, _, _, _)
RECURSIVE ProcessFilters(_, _, _, _)

\* operands.map(op => this.processExpression(op)): [g, ids, xs]
ProcessOperands(g, cfg, operands, k) ==
    IF k > Len(operands) THEN [g |-> g, ids |-> <<>>, xs |-> <<>>]
    ELSE With([r \in {processExpression(g, cfg, operands[k])} |->
         With([rest \in {ProcessOperands(r.g, cfg, operands, k + 1)} |->
         [g |-> rest.g, ids |-> <<r.id>> \o rest.ids, xs |-> <<r.x>> \o rest.xs]])])

\* filters.map(f => this.processFilter(f)): [g, ids, xs]
ProcessFilters(g, cfg, filters, k) ==
    IF k > Len(filters) THEN [g |-> g, ids |-> <<>>, xs |-> <<>>]
    ELSE With([r \in {processFilter(g, cfg, filters[k], <<>>)} |->
         With([rest \in {ProcessFilters(r.g, cfg, filters, k + 1)} |->
         [g |-> rest.g, ids |-> <<r.id>> \o rest.ids, xs |-> <<r.x>> \o rest.xs]])])

processExpression(g, cfg, expression) ==
    IF g.err # "" THEN [g |-> g, id |-> NoId, x |-> expression]
    ELSE CASE expression.type = "metric" ->
        IF expression.metric \notin DOMAIN cfg.columnMappings
        THEN [g |-> Fail(g, "UnknownMetric"), id |-> NoId, x |-> expression]
        ELSE
        With([column \in {cfg.columnMappings[expression.metric]} |->
        With([src \in {findOrCreateSourceNode(g, cfg, column.table)} |->
        With([created \in {AddFresh(src.g, "projection",
                 [BlankNode EXCEPT !.type = "projection", !.inputs = <<src.id>>,
                     !.columns = <<Column(column.column,
                         IF expression.alias # NoAlias THEN expression.alias
                         ELSE IF expression.metric # column.column
                              THEN expression.metric ELSE NoAlias,
                         <<src.id>>)>>])} |->
        IF expression.filter = <<>>
        THEN [g |-> created.g, id |-> created.id, x |-> expression]
        ELSE
        With([f \in {processFilter(created.g, cfg, expression.filter[1], <<created.id>>)} |->
        [g |-> f.g, id |-> created.id, x |-> [expression EXCEPT !.filter = <<f.x>>]]])])])])
      [] expression.type = "constant" ->
        With([p \in {createParameter(g.parameters, expression.value, <<>>)} |->
        IF p.err # "" THEN [g |-> Fail(g, p.err), id |-> NoId, x |-> expression]
        ELSE
        With([made \in {AddFresh([g EXCEPT !.parameters = p.parameters], "expression",
                 [BlankNode EXCEPT !.type = "expression",
                     !.expression = <<ConstantExpr(StrV(p.out))>>,
                     !.metadata = [NoMetadata EXCEPT !.isParameter = TRUE],
                     !.alias = expression.alias])} |->
        [g |-> made.g, id |-> made.id, x |-> expression]])])
      [] expression.type = "aggregate" ->
        With([t \in {processExpression(g, cfg, expression.target[1])} |->
        With([f \in {IF expression.filter # <<>>
             THEN processFilter(t.g, cfg, expression.filter[1], <<>>)
             ELSE [g |-> t.g, id |-> NoId, x |-> BlankExpression]} |->
        IF f.g.err # ""
        THEN [g |-> f.g, id |-> NoId, x |-> [expression EXCEPT !.target = <<t.x>>]]
        ELSE
        With([inputs \in {IF expression.filter # <<>> THEN <<t.id, f.id>> ELSE <<t.id>>} |->
        \* delete expression.filter
        With([left \in {[expression EXCEPT !.target = <<t.x>>, !.filter = <<>>]} |->
        With([made \in {AddFresh(f.g, "aggregation",
                 [BlankNode EXCEPT !.type = "expression", !.inputs = inputs,
                     !.expression = <<left>>,
                     !.alias = IF left.alias # NoAlias THEN left.alias
                               ELSE generateAlias(left)])} |->
        [g |-> made.g, id |-> made.id, x |-> left]])])])])])
      [] expression.type = "math" ->
        With([ops \in {ProcessOperands(g, cfg, expression.operands, 1)} |->
        With([left \in {[expression EXCEPT !.operands = ops.xs]} |->
        IF ops.g.err # "" THEN [g |-> ops.g, id |-> NoId, x |-> left]
        ELSE
        With([made \in {AddFresh(ops.g, "expression",
                 [BlankNode EXCEPT !.type = "expression", !.inputs = ops.ids,
                     !.expression = <<left>>, !.alias = left.alias])} |->
        [g |-> made.g, id |-> made.id, x |-> left]])])])
      [] OTHER -> [g |-> Fail(g, "UnknownExpressionType"), id |-> NoId, x |-> expression]

processFilter(g, cfg, filter, otherInputs) ==
    IF g.err # "" THEN [g |-> g, id |-> NoId, x |-> filter]
    ELSE IF filter.type = "composite"
    THEN With([kids \in {ProcessFilters(g, cfg, filter.filters, 1)} |->
         With([left \in {[filter EXCEPT !.filters = kids.xs]} |->
         IF kids.g.err # "" THEN [g |-> kids.g, id |-> NoId, x |-> left]
         ELSE
         With([inputs \in {IF otherInputs # <<>> THEN Unique(kids.ids \o otherInputs)
              ELSE kids.ids} |->
         With([made \in {AddFresh(kids.g, "composite-filter",
                  [BlankNode EXCEPT !.type = "composite-filter",
                      !.inputs = inputs, !.operator = filter.operator])} |->
         [g |-> made.g, id |-> made.id, x |-> left]])])])])
    ELSE With([t \in {processExpression(g, cfg, filter.target)} |->
         With([v \in {processExpression(t.g, cfg, filter.value)} |->
         With([left \in {[filter EXCEPT !.target = t.x, !.value = v.x]} |->
         IF v.g.err # "" THEN [g |-> v.g, id |-> NoId, x |-> left]
         ELSE
         With([inputs0 \in {<<t.id, v.id>>} |->
         With([inputs \in {IF otherInputs # <<>> THEN Unique(inputs0 \o otherInputs)
              ELSE inputs0} |->
         With([made \in {AddFresh(v.g, "filter",
                  [BlankNode EXCEPT !.type = "filter", !.inputs = inputs,
                      !.condition =
                          <<[left |-> InputSide(t.id,
                                         getMetricName(NodeOf(v.g.nodes, t.id))),
                             right |-> InputSide(v.id, IdStr(v.id)),
                             op |-> filter.op]>>])} |->
         [g |-> made.g, id |-> made.id, x |-> left]])])])])])])

\* sorts.map(sort => this.processExpression(sort.expression)): [g, ids, xs]
RECURSIVE ProcessSortExpressions(_, _, _, _)
ProcessSortExpressions(g, cfg, sorts, k) ==
    IF k > Len(sorts) THEN [g |-> g, ids |-> <<>>, xs |-> <<>>]
    ELSE With([r \in {processExpression(g, cfg, sorts[k].expression)} |->
         With([rest \in {ProcessSortExpressions(r.g, cfg, sorts, k + 1)} |->
         [g |-> rest.g, ids |-> <<r.id>> \o rest.ids,
          xs |-> <<[sorts[k] EXCEPT !.expression = r.x]>> \o rest.xs]])])

\* processSort(sorts): [g, id, x]
processSort(g, cfg, sorts) ==
    With([es \in {ProcessSortExpressions(g, cfg, sorts, 1)} |->
    IF es.g.err # "" THEN [g |-> es.g, id |-> NoId, x |-> es.xs]
    ELSE
    With([made \in {AddFresh(es.g, "sort",
             [BlankNode EXCEPT !.type = "sort", !.inputs = Unique(es.ids),
                 !.criteria = Array([i \in 1..Len(sorts) |->
                                  [expression |-> NodeRef(es.ids[i]),
                                   direction |-> sorts[i].direction]])])} |->
    [g |-> made.g, id |-> made.id, x |-> es.xs]])])

\* the `typeof groupBy === 'string'` branch of processGroupBy: [g, id]
GroupDimension(g, cfg, dimension) ==
    IF dimension \notin DOMAIN cfg.columnMappings
    THEN [g |-> Fail(g, "UnknownDimension"), id |-> NoId]
    ELSE With([column \in {cfg.columnMappings[dimension]} |->
         With([src \in {findOrCreateSourceNode(g, cfg, column.table)} |->
         AddFresh(src.g, "projection",
             [BlankNode EXCEPT !.type = "projection", !.inputs = <<src.id>>,
                 !.columns = <<Column(column.column, dimension, <<src.id>>)>>,
                 !.metadata = [NoMetadata EXCEPT !.isGrouping = TRUE]])])])

\* processGroupBy(groups), from its k-th entry on: [g, ids, xs]
RECURSIVE processGroupBy(_, _, _, _)
processGroupBy(g, cfg, groups, k) ==
    IF k > Len(groups) \/ g.err # ""
    THEN [g |-> g, ids |-> <<>>, xs |-> SubSeq(groups, k, Len(groups))]
    ELSE IF groups[k].kind = "dimension"
    THEN With([d \in {GroupDimension(g, cfg, groups[k].dimension)} |->
         With([rest \in {processGroupBy(d.g, cfg, groups, k + 1)} |->
         [g |-> rest.g, ids |-> <<d.id>> \o rest.ids, xs |-> <<groups[k]>> \o rest.xs]])])
    ELSE With([d \in {GroupDimension(g, cfg, groups[k].dimension)} |->
         With([hasExpr \in {groups[k].expression # <<>>} |->
         With([e \in {IF hasExpr THEN processExpression(d.g, cfg, groups[k].expression[1])
              ELSE [g |-> d.g, id |-> NoId, x |-> BlankExpression]} |->
         With([left \in {IF hasExpr THEN [groups[k] EXCEPT !.expression = <<e.x>>]
              ELSE groups[k]} |->
         IF e.g.err # ""
         THEN [g |-> e.g, ids |-> <<>>,
               xs |-> <<left>> \o SubSeq(groups, k + 1, Len(groups))]
         ELSE
         With([sorted \in {AddFresh(e.g, "sort",
                  [BlankNode EXCEPT !.type = "sort",
                      !.inputs = IF hasExpr THEN <<d.id, e.id>> ELSE <<d.id>>,
                      !.criteria = <<[expression |->
                                         NodeRef(IF hasExpr THEN e.id ELSE d.id),
                                      direction |-> "desc"]>>,
                      !.metadata = [NoMetadata EXCEPT !.isGrouped = TRUE,
                                       !.groupDimension = groups[k].dimension,
                                       !.limit = groups[k].limit]])} |->
         With([limited \in {AddFresh(sorted.g, "limit",
                  [BlankNode EXCEPT !.type = "limit", !.inputs = <<sorted.id>>,
                      !.limit = groups[k].limit,
                      !.metadata = [NoMetadata EXCEPT !.isGrouped = TRUE,
                                       !.groupDimension = groups[k].dimension]])} |->
         With([rest \in {processGroupBy(limited.g, cfg, groups, k + 1)} |->
         [g |-> rest.g, ids |-> <<limited.id>> \o rest.ids,
          xs |-> <<left>> \o rest.xs]])])])])])])])

\* step 4 of processUserQuery: the limit node
AddLimitNode(g, limit) ==
    IF g.err # "" \/ limit = 0 THEN g
    ELSE AddFresh(g, "limit", [BlankNode EXCEPT !.type = "limit", !.limit = limit]).g

(***************************************************************************)
(* inferJoins                                                              *)
(***************************************************************************)
\* the first key of t1, shared with t2 or not
FirstPK(t1, t2) == <<t1.primaryKeys[1]>>

\* t1.primaryKeys.find(k => t2.primaryKeys.includes(k)), as a 0/1 sequence
CommonPK(t1, t2) ==
    With([both \in {SelectSeq(t1.primaryKeys, LAMBDA k : Includes(t2.primaryKeys, k))} |->
    IF both = <<>> THEN <<>> ELSE <<both[1]>>])

\* the pairs (i, j), i < j, in the order of the two loops
TablePairs(n) ==
    Flatten(Array([i \in 1..(IF n > 0 THEN n - 1 ELSE 0) |->
                Array([d \in 1..(n - i) |-> <<i, i + d>>])]))

JoinCondition(leftId, rightId, pk) ==
    [left |-> [input |-> leftId, column |-> pk],
     right |-> [input |-> rightId, column |-> pk], op |-> "="]

\* the re-wiring done for the first source node only
RewireFirstSource(ns, sourceIds, joinId) ==
    IF sourceIds = <<>> THEN ns
    ELSE replaceNodeID(ns, Head(sourceIds), joinId, <<>>)

\* sourceNodes.forEach(sn => this.replaceNodeID(sn.id, joinNodeId))
RECURSIVE RewireSources(_, _, _)
RewireSources(ns, sourceIds, joinId) ==
    IF sourceIds = <<>> THEN ns
    ELSE With([replaced \in {replaceNodeID(ns, Head(sourceIds), joinId, <<>>)} |->
         RewireSources(replaced, Tail(sourceIds), joinId)])

inferJoins(g, cfg) ==
    IF g.err # "" THEN g
    ELSE
    With([sourceNodes \in {SourceNodesOf(g.nodes)} |->
    IF Len(sourceNodes) <= 1 THEN g
    ELSE
    With([pairs \in {TablePairs(Len(sourceNodes))} |->
    With([commonPKs \in {Array([k \in 1..Len(pairs) |->
             CommonPK(cfg.tables[sourceNodes[pairs[k][1]].table],
                      cfg.tables[sourceNodes[pairs[k][2]].table])])} |->
    IF \E k \in 1..Len(pairs) : commonPKs[k] = <<>> THEN Fail(g, "NoCommonPK")
    ELSE
    With([joinConds \in {Array([k \in 1..Len(pairs) |->
             JoinCondition(sourceNodes[pairs[k][1]].id, sourceNodes[pairs[k][2]].id,
                           commonPKs[k][1])])} |->
    With([made \in {AddFresh(g, "join",
             [BlankNode EXCEPT !.type = "join", !.inputs = NodeIds(sourceNodes),
                 !.joinConditions = joinConds])} |->
    With([rewired \in {RewireSources(made.g.nodes, NodeIds(sourceNodes), made.id)} |->
    [made.g EXCEPT !.nodes =
        Array([i \in 1..Len(rewired) |->
            IF rewired[i].type = "source"
            THEN [rewired[i] EXCEPT !.isTerminal = FALSE]
            ELSE rewired[i]])]])])])])])])

(***************************************************************************)
(* ensureRequiredColumns                                                   *)
(***************************************************************************)
\* the while loop over the inputs[0] chain of an aggregation node; the chain
\* of a graph without a cycle ends within Len(ns) steps
RECURSIVE ChainReaches(_, _, _, _)
ChainReaches(ns, node, sourceId, fuel) ==
    IF Includes(node.inputs, sourceId) THEN TRUE
    ELSE IF fuel = 0 \/ node.inputs = <<>> \/ ~HasNode(ns, node.inputs[1]) THEN FALSE
    ELSE ChainReaches(ns, NodeOf(ns, node.inputs[1]), sourceId, fuel - 1)

hasTimeBasedAggregation(ns, sourceId) ==
    \E i \in 1..Len(ns) :
        /\ ns[i].type = "expression"
        /\ ns[i].expression[1].type = "aggregate"
        /\ ns[i].expression[1].time_range # <<>>
        /\ ChainReaches(ns, ns[i], sourceId, Len(ns))

\* the required columns of a source, in the insertion order of the Set
requiredColumns(ns, cfg, sourceNode) ==
    With([tableConfig \in {cfg.tables[sourceNode.table]} |->
    With([always \in {Unique(tableConfig.alwaysIncludeColumns)} |->
    IF hasTimeBasedAggregation(ns, sourceNode.id) /\ tableConfig.timeColumn # ""
    THEN Unique(Append(always, tableConfig.timeColumn))
    ELSE always])])

\* missingColumns without the check against the columns already projected
missingColumnsAll(ns, cfg, sourceNode) ==
    requiredColumns(ns, cfg, sourceNode)

missingColumns(ns, cfg, sourceNode) ==
    With([names \in {UNION {{ns[i].columns[c].name : c \in 1..Len(ns[i].columns)} :
                   i \in {j \in 1..Len(ns) :
                             /\ ns[j].type = "projection"
                             /\ Includes(ns[j].inputs, sourceNode.id)}}} |->
    SelectSeq(requiredColumns(ns, cfg, sourceNode), LAMBDA col : col \notin names)])

\* missingColumns.forEach(col => this.addNode(...)) for one source
RECURSIVE AddRequired(_, _, _)
AddRequired(g, sourceId, cols) ==
    IF cols = <<>> THEN g
    ELSE With([made \in {AddFresh(g, "projection",
                  [BlankNode EXCEPT !.type = "projection", !.inputs = <<sourceId>>,
                      !.columns = <<Column(Head(cols), NoAlias, <<sourceId>>)>>,
                      !.metadata = [NoMetadata EXCEPT !.isRequiredProjection = TRUE]])} |->
         AddRequired(made.g, sourceId, Tail(cols))])

\* sourceNodes.forEach(...), over the sources found on entry
RECURSIVE EnsureSources(_, _, _)
EnsureSources(g, cfg, sourceNodes) ==
    IF sourceNodes = <<>> THEN g
    ELSE With([missing \in {missingColumns(g.nodes, cfg, Head(sourceNodes))} |->
         With([g1 \in {AddRequired(g, Head(sourceNodes).id, missing)} |->
         EnsureSources(g1, cfg, Tail(sourceNodes))])])

ensureRequiredColumns(g, cfg) ==
    IF g.err # "" THEN g ELSE EnsureSources(g, cfg, SourceNodesOf(g.nodes))

(***************************************************************************)
(* Optimisation passes.  Each pass maps a graph G to a graph G; a pass     *)
(* that throws leaves the graph as it was at the throw and sets err.       *)
(***************************************************************************)
\* node.inputs.sort(), in place, on the node of the given id
SortInputsOf(ns, id) ==
    Array([i \in 1..Len(ns) |->
        IF ns[i].id = id THEN [ns[i] EXCEPT !.inputs = SortIds(@)] ELSE ns[i]])

\* dependents.map(d => d.inputs.sort()...): every dependent of id gets sorted
SortDependentsOf(ns, id) ==
    Array([i \in 1..Len(ns) |->
        IF Includes(ns[i].inputs, id) THEN [ns[i] EXCEPT !.inputs = SortIds(@)]
        ELSE ns[i]])

\* depNode.inputs = depNode.inputs.map(input => input === oldId ? newId : input)
RewireInputs(ns, oldId, newId) ==
    Array([i \in 1..Len(ns) |->
        [ns[i] EXCEPT !.inputs = Array([k \in 1..Len(@) |-> IF @[k] = oldId THEN newId ELSE @[k]])]])

ColumnNames(node) == JoinStr(Array([c \in 1..Len(node.columns) |-> node.columns[c].name]), ",")

\* the key of a normal projection, computed after the in-place sorts
ProjectionKey(ns, id) ==
    With([deps \in {findDependentNodes(ns, id)} |->
    JoinIds(NodeOf(ns, id).inputs) \o ColumnNames(NodeOf(ns, id)) \o
    JoinStr(Array([d \in 1..Len(deps) |-> JoinIds(deps[d].inputs)]), ",")])

RequiredProjectionKey(ns, id) ==
    "required_" \o JoinIds(NodeOf(ns, id).inputs) \o "_" \o ColumnNames(NodeOf(ns, id))

\* uniqueProjections[key], as a 0/1 sequence; uniq is a list of [key, id]
LookupKey(uniq, key) ==
    With([hit \in {SelectSeq(uniq, LAMBDA u : u.key = key)} |->
    IF hit = <<>> THEN <<>> ELSE <<hit[1].id>>])

\* this.replaceNodeID(id, survivor); this.removeNode(id)
ReplaceAndRemove(ns, id, survivor) ==
    With([replaced \in {replaceNodeID(ns, id, survivor, <<>>)} |->
    removeNode(replaced, id)])

\* normalProjections.forEach: st = [nodes, uniq]
RECURSIVE MergeNormalProjections(_, _)
MergeNormalProjections(st, ids) ==
    IF ids = <<>> THEN st
    ELSE With([id \in {Head(ids)} |->
         With([sortedNode \in {SortInputsOf(st.nodes, id)} |->
         With([sorted \in {SortDependentsOf(sortedNode, id)} |->
         With([key \in {ProjectionKey(sorted, id)} |->
         With([seen \in {LookupKey(st.uniq, key)} |->
         With([st1 \in {IF seen = <<>>
              THEN [nodes |-> sorted,
                    uniq |-> Append(st.uniq, [key |-> key, id |-> id])]
              ELSE [nodes |-> ReplaceAndRemove(sorted, id, seen[1]),
                    uniq |-> st.uniq]} |->
         MergeNormalProjections(st1, Tail(ids))])])])])])])

\* requiredProjections.forEach: st = [nodes, uniq]
RECURSIVE MergeRequiredProjections(_, _)
MergeRequiredProjections(st, ids) ==
    IF ids = <<>> THEN st
    ELSE With([id \in {Head(ids)} |->
         With([sorted \in {SortInputsOf(st.nodes, id)} |->
         With([key \in {RequiredProjectionKey(sorted, id)} |->
         With([seen \in {LookupKey(st.uniq, key)} |->
         With([st1 \in {IF seen = <<>>
              THEN [nodes |-> sorted,
                    uniq |-> Append(st.uniq, [key |-> key, id |-> id])]
              ELSE [nodes |-> ReplaceAndRemove(sorted, id, seen[1]),
                    uniq |-> st.uniq]} |->
         MergeRequiredProjections(st1, Tail(ids))])])])])])

removedDuplicateProjections(g) ==
    IF g.err # "" THEN g
    ELSE
    With([projectionNodes \in {SelectSeq(g.nodes, LAMBDA n : n.type = "projection")} |->
    With([normalProjections \in {NodeIds(SelectSeq(projectionNodes, LAMBDA n : ~n.metadata.isRequiredProjection))} |->
    With([requiredProjections \in {NodeIds(SelectSeq(projectionNodes, LAMBDA n : n.metadata.isRequiredProjection))} |->
    With([st1 \in {MergeNormalProjections([nodes |-> g.nodes, uniq |-> <<>>], normalProjections)} |->
    With([st2 \in {MergeRequiredProjections(st1, requiredProjections)} |->
    [g EXCEPT !.nodes = st2.nodes]])])])])])

(***************************************************************************)
(* inlineParameters                                                        *)
(***************************************************************************)
\* what the loop body does to one dependent of the parameter node
InlineInto(dependent, paramId, value) ==
    With([inCondition \in {IF dependent.condition = <<>> THEN dependent
         ELSE With([c \in {dependent.condition[1]} |->
              With([left \in {IF c.left.kind = "input"
                   THEN IF c.left.input = paramId THEN ParameterSide(value)
                        ELSE c.left
                   ELSE c.left} |->
              With([right \in {IF c.right.kind = "input"
                   THEN IF c.right.input = paramId THEN ParameterSide(value)
                        ELSE left
                   ELSE c.right} |->
              [dependent EXCEPT
                  !.condition = <<[left |-> left, right |-> right, op |-> c.op]>>,
                  !.metadata.hasParameter = TRUE,
                  !.inputs = Without(@, paramId)]])])])} |->
    IF inCondition.type = "sort"
    THEN [inCondition EXCEPT
             !.criteria = Array([k \in 1..Len(@) |->
                              IF @[k].expression = NodeRef(paramId)
                              THEN [@[k] EXCEPT !.expression = LiteralRef(value)]
                              ELSE @[k]]),
             !.metadata.hasParameter = TRUE,
             !.inputs = Without(@, paramId)]
    ELSE inCondition])

\* the body of the loop over expressionNodes for one node id
InlineOne(ns, id) ==
    IF ~NodeOf(ns, id).metadata.isParameter THEN ns
    ELSE With([value \in {NodeOf(ns, id).expression[1].value.str} |->
         With([inlined \in {Array([i \in 1..Len(ns) |->
                  IF Includes(ns[i].inputs, id) THEN InlineInto(ns[i], id, value)
                  ELSE ns[i]])} |->
         removeNode(inlined, id)])])

RECURSIVE InlineEach(_, _)
InlineEach(ns, ids) ==
    IF ids = <<>> THEN ns
    ELSE With([ns1 \in {InlineOne(ns, Head(ids))} |-> InlineEach(ns1, Tail(ids))])

inlineParameters(g) ==
    IF g.err # "" THEN g
    ELSE [g EXCEPT !.nodes =
            InlineEach(g.nodes, NodeIds(SelectSeq(g.nodes, LAMBDA n : n.type = "expression")))]

(***************************************************************************)
(* mergeFilters.  The pass walks a snapshot of the node objects taken on   *)
(* entry: a node it has removed is still walked and still compared, with   *)
(* the inputs it had when it left the graph.  st = [g, dead], dead being   *)
(* the removed objects of the snapshot.                                    *)
(***************************************************************************)
IsFilterType(n) == n.type \in {"filter", "composite-filter"}

\* the object of the snapshot with the given id
SnapNode(st, id) ==
    IF HasNode(st.g.nodes, id) THEN NodeOf(st.g.nodes, id)
    ELSE st.dead[CHOOSE i \in 1..Len(st.dead) : st.dead[i].id = id]

\* n.inputs.sort() on those of a list of objects that have one of the given ids
SortInputsIn(ns, ids) ==
    Array([i \in 1..Len(ns) |->
        IF Includes(ids, ns[i].id) THEN [ns[i] EXCEPT !.inputs = SortIds(@)] ELSE ns[i]])

\* n.inputs.sort() on the objects of the given ids, in the graph or out of it
SortSnapshot(st, ids) ==
    [g |-> [st.g EXCEPT !.nodes = SortInputsIn(@, ids)],
     dead |-> SortInputsIn(st.dead, ids)]

\* this.removeNode(id) for each id of the list; objects removed join dead
RECURSIVE RemoveSnapshot(_, _)
RemoveSnapshot(st, ids) ==
    IF ids = <<>> THEN st
    ELSE With([st1 \in {IF HasNode(st.g.nodes, Head(ids))
              THEN [g |-> [st.g EXCEPT !.nodes = removeNode(@, Head(ids))],
                    dead |-> Append(st.dead, NodeOf(st.g.nodes, Head(ids)))]
              ELSE st} |->
         RemoveSnapshot(st1, Tail(ids))])

\* allAffectedIds.forEach(oldId => ...)
RECURSIVE RewireAll(_, _, _)
RewireAll(ns, oldIds, newId) ==
    IF oldIds = <<>> THEN ns
    ELSE With([rewired \in {RewireInputs(ns, Head(oldIds), newId)} |->
         RewireAll(rewired, Tail(oldIds), newId)])

\* the body of the loop of mergeFilters for one object of the snapshot
MergeOne(st, snapIds, id) ==
    IF ~IsFilterType(SnapNode(st, id)) THEN st
    ELSE
    With([others \in {SelectSeq(snapIds, LAMBDA x : x # id /\ IsFilterType(SnapNode(st, x)))} |->
    IF others = <<>> THEN st
    ELSE
    With([st1 \in {SortSnapshot(st, Append(others, id))} |->
    With([node \in {SnapNode(st1, id)} |->
    With([relatedFilters \in {SelectSeq(others, LAMBDA x : SnapNode(st1, x).inputs = node.inputs)} |->
    IF relatedFilters = <<>> THEN st1
    ELSE
    With([made \in {AddFresh(st1.g, "composite-filter",
             [BlankNode EXCEPT !.type = "composite-filter", !.inputs = node.inputs,
                 !.operator = "and"])} |->
    With([allAffectedIds \in {<<id>> \o relatedFilters} |->
    With([removed \in {RemoveSnapshot([g |-> made.g, dead |-> st1.dead], allAffectedIds)} |->
    [removed EXCEPT !.g.nodes = RewireAll(@, allAffectedIds, made.id)]])])])])])])])

RECURSIVE MergeEach(_, _, _)
MergeEach(st, snapIds, k) ==
    IF k > Len(snapIds) THEN st
    ELSE With([st1 \in {MergeOne(st, snapIds, snapIds[k])} |->
         MergeEach(st1, snapIds, k + 1)])

mergeFilters(g) ==
    IF g.err # "" THEN g
    ELSE MergeEach([g |-> g, dead |-> <<>>], NodeIds(g.nodes), 1).g

(***************************************************************************)
(* removeUselessCompositeFilters                                           *)
(***************************************************************************)
UselessOne(ns, id) ==
    With([node \in {NodeOf(ns, id)} |->
    IF Len(node.inputs) # 1 THEN ns
    ELSE With([rewired \in {RewireInputs(ns, id, node.inputs[1])} |->
         removeNode(rewired, id)])])

RECURSIVE UselessEach(_, _)
UselessEach(ns, ids) ==
    IF ids = <<>> THEN ns
    ELSE With([ns1 \in {UselessOne(ns, Head(ids))} |-> UselessEach(ns1, Tail(ids))])

removeUselessCompositeFilters(g) ==
    IF g.err # "" THEN g
    ELSE [g EXCEPT !.nodes =
            UselessEach(g.nodes,
                NodeIds(SelectSeq(g.nodes, LAMBDA n : n.type = "composite-filter")))]

(***************************************************************************)
(* areExpressionsEqual / areFiltersEqual (src/src/compiler/index.ts)       *)
(***************************************************************************)
\* expr1.value === expr2.value: two arrays are two objects, never identical
SameValue(v1, v2) == v1.vt # "array" /\ v2.vt # "array" /\ v1 = v2

RECURSIVE areExpressionsEqual(_, _)
RECURSIVE areFiltersEqual(_, _)

areExpressionsEqual(expr1, expr2) ==
    IF expr1.type = expr2.type /\ expr1.alias = expr2.alias
    THEN CASE expr1.type = "constant" -> SameValue(expr1.value, expr2.value)
           [] expr1.type = "metric" -> expr1.metric = expr2.metric
           [] expr1.type = "aggregate" ->
                /\ expr1.aggregation = expr2.aggregation
                /\ \/ /\ expr1.time_range # <<>> /\ expr2.time_range # <<>>
                      /\ expr1.time_range[1].type = expr2.time_range[1].type
                   \/ expr1.time_range = <<>> /\ expr2.time_range = <<>>
                /\ areExpressionsEqual(expr1.target[1], expr2.target[1])
                /\ IF expr1.filter # <<>> /\ expr2.filter # <<>>
                   THEN areFiltersEqual(expr1.filter[1], expr2.filter[1])
                   ELSE expr1.filter = <<>> /\ expr2.filter = <<>>
           [] expr1.type = "math" ->
                /\ expr1.operator = expr2.operator
                /\ Len(expr1.operands) = Len(expr2.operands)
                /\ \A i \in 1..Len(expr1.operands) :
                       areExpressionsEqual(expr1.operands[i], expr2.operands[i])
           [] OTHER -> FALSE
    ELSE FALSE

areFiltersEqual(filter1, filter2) ==
    IF filter1.type # filter2.type THEN FALSE
    ELSE IF filter1.type = "simple"
    THEN /\ areExpressionsEqual(filter1.target, filter2.target)
         /\ areExpressionsEqual(filter1.value, filter2.value)
         /\ filter1.op = filter2.op
    ELSE IF filter1.type = "composite"
    THEN /\ filter1.operator = filter2.operator
         /\ Len(filter1.filters) = Len(filter2.filters)
         /\ \A i \in 1..Len(filter1.filters) :
                areFiltersEqual(filter1.filters[i], filter2.filters[i])
    ELSE FALSE

(***************************************************************************)
(* removeDuplicateProjectionExpressions                                    *)
(***************************************************************************)
\* the first two .filter() calls: expression nodes with one input and one dependent
SingleChainExpressions(ns) ==
    SelectSeq(ns, LAMBDA n : /\ n.type = "expression"
                             /\ Len(n.inputs) = 1
                             /\ Len(findDependentNodes(ns, n.id)) = 1)

\* the body of the loop without its this.replaceNodeID(expr.id, previousExpr.id)
DedupOneKeepReferences(st, id) ==
    With([expr \in {NodeOf(st.nodes, id)} |->
    With([same \in {SelectSeq(st.unique,
             LAMBDA u : areExpressionsEqual(NodeOf(st.nodes, u).expression[1],
                                            expr.expression[1]))} |->
    IF same = <<>> THEN [st EXCEPT !.unique = Append(@, id)]
    ELSE [st EXCEPT !.nodes = removeNode(removeNode(st.nodes, id), expr.inputs[1])]])])

\* st = [nodes, unique]: the body of the loop for one candidate
DedupOne(st, id) ==
    With([expr \in {NodeOf(st.nodes, id)} |->
    With([same \in {SelectSeq(st.unique,
             LAMBDA u : areExpressionsEqual(NodeOf(st.nodes, u).expression[1],
                                            expr.expression[1]))} |->
    IF same = <<>> THEN [st EXCEPT !.unique = Append(@, id)]
    ELSE
    With([replaced \in {ReplaceAndRemove(st.nodes, id, same[1])} |->
    [st EXCEPT !.nodes = removeNode(replaced, expr.inputs[1])]])])])

RECURSIVE DedupEach(_, _)
DedupEach(st, ids) ==
    IF ids = <<>> THEN st
    ELSE With([st1 \in {DedupOne(st, Head(ids))} |-> DedupEach(st1, Tail(ids))])

removeDuplicateProjectionExpressions(g) ==
    IF g.err # "" THEN g
    ELSE
    With([chains \in {SingleChainExpressions(g.nodes)} |->
    \* parent.type on a parent that is not in the graph
    IF \E i \in 1..Len(chains) : ~HasNode(g.nodes, chains[i].inputs[1])
    THEN Fail(g, "TypeError")
    ELSE
    With([expressions \in {SelectSeq(chains, LAMBDA n : NodeOf(g.nodes, n.inputs[1]).type = "projection")} |->
    With([st \in {DedupEach([nodes |-> g.nodes, unique |-> <<>>], NodeIds(expressions))} |->
    [g EXCEPT !.nodes = st.nodes]])])])

(***************************************************************************)
(* trySimplification1 (risky)                                              *)
(***************************************************************************)
\* 'metric' in side ? side.metric : undefined, compared with 'ticker'
SideIsTicker(side) == side.kind = "input" /\ side.metric = "ticker"

\* this.removeNode(id) for each id of a list
RECURSIVE RemoveEach(_, _)
RemoveEach(ns, ids) ==
    IF ids = <<>> THEN ns
    ELSE With([ns1 \in {removeNode(ns, Head(ids))} |-> RemoveEach(ns1, Tail(ids))])

trySimplification1(g) ==
    IF g.err # "" THEN g
    ELSE
    With([ns \in {g.nodes} |->
    With([sourceNodes \in {SourceNodesOf(ns)} |->
    IF Len(sourceNodes) # 2 THEN g
    ELSE
    With([tickerSource \in {SelectSeq(sourceNodes, LAMBDA n : n.table = "tickers")} |->
    IF tickerSource = <<>> THEN g
    ELSE
    With([deps \in {findDependentNodes(ns, tickerSource[1].id)} |->
    With([projections \in {SelectSeq(deps, LAMBDA n : n.type = "projection")} |->
    IF Len(deps) # Len(projections) THEN g
    ELSE IF \E i \in 1..Len(projections) : Len(projections[i].columns) # 1 THEN g
    ELSE IF \E i \in 1..Len(projections) : projections[i].columns[1].name # "ticker" THEN g
    ELSE
    With([deps2 \in {Flatten(Array([i \in 1..Len(deps) |-> findDependentNodes(ns, deps[i].id)]))} |->
    With([filters \in {SelectSeq(deps2, LAMBDA n : n.type = "filter")} |->
    IF Len(deps2) # Len(filters) THEN g
    ELSE IF \E i \in 1..Len(filters) :
               ~(SideIsTicker(filters[i].condition[1].left)
                 \/ SideIsTicker(filters[i].condition[1].right)) THEN g
    ELSE
    With([otherSource \in {SelectSeq(sourceNodes, LAMBDA n : n.table = "daily_agg")} |->
    IF otherSource = <<>> THEN g
    ELSE
    With([made \in {AddFresh(g, "projection",
             [BlankNode EXCEPT !.type = "projection",
                 !.inputs = <<otherSource[1].id>>,
                 !.columns = <<Column("ticker", NoAlias, <<otherSource[1].id>>)>>])} |->
    With([moved \in {Array([i \in 1..Len(made.g.nodes) |->
             IF Includes(NodeIds(filters), made.g.nodes[i].id)
             THEN [made.g.nodes[i] EXCEPT !.inputs = <<made.id>>]
             ELSE made.g.nodes[i]])} |->
    With([removed \in {removeNode(moved, tickerSource[1].id)} |->
    [made.g EXCEPT !.nodes = RemoveEach(removed, NodeIds(projections))]])])])])])])])])])])])

(***************************************************************************)
(* removeDuplicateFilters (risky)                                          *)
(***************************************************************************)
\* node.inputs.every(input => this.nodes[input].type === 'projection'):
\* "yes", "no", or "throws" when it meets an input that is not in the graph
RECURSIVE EveryInputProjection(_, _, _)
EveryInputProjection(ns, inputs, k) ==
    IF k > Len(inputs) THEN "yes"
    ELSE IF ~HasNode(ns, inputs[k]) THEN "throws"
    ELSE IF NodeOf(ns, inputs[k]).type # "projection" THEN "no"
    ELSE EveryInputProjection(ns, inputs, k + 1)

\* st = [nodes, filters]: the body of the loop for one filter of the first list
DuplicateFilterOne(st, id) ==
    With([filter \in {NodeOf(st.nodes, id)} |->
    With([alreadyExistingSameFilters \in {SelectSeq(st.filters,
             LAMBDA x : /\ x # id
                        /\ NodeOf(st.nodes, x).inputs = filter.inputs
                        /\ NodeOf(st.nodes, x).metadata = filter.metadata)} |->
    IF alreadyExistingSameFilters = <<>> THEN st
    ELSE [nodes |-> ReplaceAndRemove(st.nodes, id, alreadyExistingSameFilters[1]),
          filters |-> Without(st.filters, id)]])])

RECURSIVE DuplicateFilterEach(_, _)
DuplicateFilterEach(st, ids) ==
    IF ids = <<>> THEN st
    ELSE With([st1 \in {DuplicateFilterOne(st, Head(ids))} |->
         DuplicateFilterEach(st1, Tail(ids))])

removeDuplicateFilters(g) ==
    IF g.err # "" THEN g
    ELSE
    With([all \in {SelectSeq(g.nodes, LAMBDA n : n.type = "filter")} |->
    IF \E i \in 1..Len(all) : EveryInputProjection(g.nodes, all[i].inputs, 1) = "throws"
    THEN Fail(g, "TypeError")
    ELSE
    With([filters \in {NodeIds(SelectSeq(all,
             LAMBDA n : EveryInputProjection(g.nodes, n.inputs, 1) = "yes"))} |->
    With([st \in {DuplicateFilterEach([nodes |-> g.nodes, filters |-> filters], filters)} |->
    [g EXCEPT !.nodes = st.nodes]])])])

(***************************************************************************)
(* optimize(risky)                                                         *)
(***************************************************************************)
\* optimize() on a graph whose projections have lost the isRequiredProjection mark
optimizeUnmarked(g, cfg, isRisky) ==
    With([g0 \in {[g EXCEPT !.nodes = Array([i \in 1..Len(g.nodes) |->
                     [g.nodes[i] EXCEPT !.metadata.isRequiredProjection = FALSE]])]} |->
    With([g1 \in {removedDuplicateProjections(g0)} |->
    With([g2 \in {inlineParameters(g1)} |->
    With([g3 \in {mergeFilters(g2)} |->
    With([g4 \in {removeUselessCompositeFilters(g3)} |->
    With([g5 \in {removeDuplicateProjectionExpressions(g4)} |->
    With([g6 \in {IF isRisky THEN trySimplification1(g5) ELSE g5} |->
    With([g7 \in {IF isRisky THEN removeDuplicateFilters(g6) ELSE g6} |->
    ensureRequiredColumns(g7, cfg)])])])])])])])])

optimize(g, cfg, isRisky) ==
    With([g1 \in {removedDuplicateProjections(g)} |->
    With([g2 \in {inlineParameters(g1)} |->
    With([g3 \in {mergeFilters(g2)} |->
    With([g4 \in {removeUselessCompositeFilters(g3)} |->
    With([g5 \in {removeDuplicateProjectionExpressions(g4)} |->
    With([g6 \in {IF isRisky THEN trySimplification1(g5) ELSE g5} |->
    With([g7 \in {IF isRisky THEN removeDuplicateFilters(g6) ELSE g6} |->
    ensureRequiredColumns(g7, cfg)])])])])])])])

\* steps 1 to 4 of processUserQuery: [g, x] with x the UserQuery as the
\* lowering left it
LowerUserQuery(cfg, query) ==
    With([f \in {processFilter(NewGraph, cfg, query.filter, <<>>)} |->
    With([gb \in {IF query.group_by # <<>> THEN processGroupBy(f.g, cfg, query.group_by, 1)
         ELSE [g |-> f.g, ids |-> <<>>, xs |-> <<>>]} |->
    With([sb \in {IF query.sort_by # <<>> /\ gb.g.err = "" THEN processSort(gb.g, cfg, query.sort_by)
         ELSE [g |-> gb.g, id |-> NoId, x |-> query.sort_by]} |->
    [g |-> AddLimitNode(sb.g, query.limit),
     x |-> [query EXCEPT !.filter = f.x, !.group_by = gb.xs, !.sort_by = sb.x]]])])])

\* processUserQuery, the whole of the constructor: [g, x, lowered, joined],
\* lowered and joined being the nodes before and after this.inferJoins()
processUserQuery(cfg, query) ==
    With([lowered \in {LowerUserQuery(cfg, query)} |->
    With([joined \in {inferJoins(lowered.g, cfg)} |->
    [g |-> ensureRequiredColumns(joined, cfg), x |-> lowered.x,
     lowered |-> lowered.g.nodes, joined |-> joined.nodes]])])

(***************************************************************************)
(* QueryBuilder (src/unnamed/part_002): text helpers.  SQL fragments are   *)
(* strings; the regular expressions of the emitter are evaluated on them.  *)
(***************************************************************************)
\* the characters \w matches
WordChars ==
    {"a", "b", "c", "d", "e", "f", "g", "h", "i", "j", "k", "l", "m",
     "n", "o", "p", "q", "r", "s", "t", "u", "v", "w", "x", "y", "z",
     "A", "B", "C", "D", "E", "F", "G", "H", "I", "J", "K", "L", "M",
     "N", "O", "P", "Q", "R", "S", "T", "U", "V", "W", "X", "Y", "Z",
     "0", "1", "2", "3", "4", "5", "6", "7", "8", "9", "_"}

CharAt(s, i) == SubSeq(s, i, i)

\* \b at the gap before position i of s (1 <= i <= Len(s) + 1)
WordBoundary(s, i) ==
    (i > 1 /\ CharAt(s, i - 1) \in WordChars) # (i <= Len(s) /\ CharAt(s, i) \in WordChars)

\* s.indexOf(t) at position i
OccursAt(s, t, i) == i + Len(t) - 1 <= Len(s) /\ SubSeq(s, i, i + Len(t) - 1) = t

\* new RegExp(`\\b${a}\\b`).test(sql), for an alias a of word characters
ContainsWord(sql, a) ==
    \E i \in 1..Len(sql) :
        OccursAt(sql, a, i) /\ WordBoundary(sql, i) /\ WordBoundary(sql, i + Len(a))

WindowFunctionNames == {"last_value", "first_value", "avg", "sum", "min", "max", "count"}

\* the position after the blanks that start at position i
RECURSIVE SkipBlanks(_, _)
SkipBlanks(s, i) == IF i <= Len(s) /\ CharAt(s, i) = " " THEN SkipBlanks(s, i + 1) ELSE i

\* /\b(last_value|first_value|avg|sum|min|max|count)\s*\(/.test(sql), on
\* text whose function names are in lower case
inlineWindowRegex(sql) ==
    \E i \in 1..Len(sql) : \E f \in WindowFunctionNames :
        /\ OccursAt(sql, f, i)
        /\ WordBoundary(sql, i)
        /\ OccursAt(sql, "(", SkipBlanks(sql, i + Len(f)))

\* c.match(/^(.*?)(?: AS ([^,]+))?$/): m[2] || m[1]
ColumnName(c) ==
    With([starts \in {{i \in 1..Len(c) :
             /\ OccursAt(c, " AS ", i)
             /\ i + 4 <= Len(c)
             /\ \A k \in (i + 4)..Len(c) : CharAt(c, k) # ","}} |->
       IF starts = {} THEN c
       ELSE With([i \in {CHOOSE x \in starts : \A y \in starts : x <= y} |->
               SubSeq(c, i + 4, Len(c))])])

\* unit.toUpperCase()
UpperUnit(unit) ==
    CASE unit = "second" -> "SECOND" [] unit = "minute" -> "MINUTE"
      [] unit = "hour" -> "HOUR"     [] unit = "day" -> "DAY"
      [] unit = "week" -> "WEEK"     [] unit = "month" -> "MONTH"
      [] unit = "year" -> "YEAR"     [] OTHER -> unit

\* new Date(ms).toISOString().slice(0, 10): the calendar day, written as
\* its day number since the epoch
IsoDate(ms) == "day" \o ToString(ms \div 86400000)

\* `${value}` for a constant value
RECURSIVE ValueText(_)
ValueText(v) ==
    CASE v.vt = "number" -> ToString(v.num)
      [] v.vt = "string" -> v.str
      [] v.vt = "boolean" -> IF v.bool THEN "true" ELSE "false"
      [] v.vt = "array" -> JoinStr(Array([i \in 1..Len(v.elems) |-> ValueText(v.elems[i])]), ",")

\* `${x}` for a string that may be undefined
OrUndefined(x) == IF x = "" THEN "undefined" ELSE x

(***************************************************************************)
(* translateExpression / aggregationToSQL                                  *)
(***************************************************************************)
UnboundedFrame(table) ==
    "OVER (PARTITION BY " \o table.primaryKeys[1] \o " ORDER BY " \o
    OrUndefined(table.timeColumn) \o
    " ASC ROWS BETWEEN UNBOUNDED PRECEDING AND UNBOUNDED FOLLOWING)"

\* aggregationToSQL(expression, altTarget, config): [sql, err]
aggregationToSQL(expression, altTarget, cfg) ==
    LET target == expression.target[1]
        hasTable == target.type = "metric" /\ target.metric \in DOMAIN cfg.columnMappings
        column == cfg.columnMappings[target.metric]
        table == cfg.tables[column.table]
        timeRange == expression.time_range
        isTrading == timeRange # <<>> /\ timeRange[1].type = "trading"
        partition0 == "PARTITION BY " \o table.primaryKeys[1] \o " ORDER BY " \o
                      OrUndefined(table.timeColumn)
        partition ==
            IF ~hasTable THEN "undefined"
            ELSE "OVER (" \o
                 (IF isTrading
                  THEN partition0 \o " ROWS BETWEEN " \o ToString(timeRange[1].duration - 1)
                       \o " PRECEDING AND CURRENT ROW"
                  ELSE partition0) \o ")"
        col == IF altTarget # "" THEN altTarget
               ELSE IF hasTable THEN column.column ELSE "undefined"
        frame == IF hasTable /\ ~isTrading THEN UnboundedFrame(table) ELSE partition
        plain(f) == f \o "(" \o col \o ") " \o partition
        agg == expression.aggregation
    IN IF altTarget = "" /\ target.type # "metric" THEN [sql |-> "", err |-> "InvalidTarget"]
       ELSE CASE agg = "first" -> [sql |-> "first_value(" \o col \o ") " \o frame, err |-> ""]
              [] agg = "last" -> [sql |-> "last_value(" \o col \o ") " \o frame, err |-> ""]
              [] agg \in {"avg", "sum", "min", "max", "count"} ->
                    [sql |-> plain(agg), err |-> ""]
              [] agg = "median" -> [sql |-> plain("quantile(0.5)"), err |-> ""]
              [] agg = "stddev" -> [sql |-> plain("stddevPopStable"), err |-> ""]
              [] agg = "variance" -> [sql |-> plain("varPop"), err |-> ""]
              [] agg = "diff" ->
                    [sql |-> "last_value(" \o col \o ") " \o frame \o " - first_value("
                             \o col \o ") " \o frame, err |-> ""]
              [] agg = "diff_pct" ->
                    [sql |-> "(last_value(" \o col \o ") " \o frame \o " - first_value("
                             \o col \o ") " \o frame \o ") / nullIf(first_value(" \o col
                             \o ") " \o frame \o ", 0) * 100", err |-> ""]
              [] OTHER -> [sql |-> "", err |-> "UnsupportedAggregation"]

\* the date predicate an aggregate pushes for its time range
TimeRangeWhere(tr) ==
    IF tr = <<>> THEN <<>>
    ELSE IF tr[1].type = "relative"
    THEN <<"date >= date_sub(now(), INTERVAL " \o ToString(tr[1].duration) \o " "
           \o UpperUnit(tr[1].unit) \o ")">>
    ELSE IF tr[1].type = "absolute"
    THEN <<"date BETWEEN toDate('" \o IsoDate(tr[1].from * 1000) \o "') AND toDate('"
           \o IsoDate(tr[1].to * 1000) \o "')">>
    ELSE <<>>

\* translateExpression(expression, useAliasOnly): [column, where, isWindow, err]
RECURSIVE translateExpression(_, _, _)
translateExpression(expression, useAliasOnly, cfg) ==
    LET aliasSuffix == IF expression.alias # NoAlias THEN " AS " \o expression.alias ELSE ""
        out(c, w, win, e) == [column |-> c, where |-> w, isWindow |-> win, err |-> e]
    IN CASE expression.type = "constant" -> out(ValueText(expression.value), <<>>, FALSE, "")
         [] expression.type = "metric" ->
              IF useAliasOnly
              THEN out(IF expression.alias # NoAlias THEN expression.alias
                       ELSE expression.metric, <<>>, FALSE, "")
              ELSE out(expression.metric \o aliasSuffix, <<>>, FALSE, "")
         [] expression.type = "math" ->
              IF useAliasOnly /\ expression.alias # NoAlias
              THEN out(expression.alias, <<>>, FALSE, "")
              ELSE With([ops \in {Array([i \in 1..Len(expression.operands) |->
                            translateExpression(expression.operands[i], FALSE, cfg)])} |->
                       With([failed \in {SelectSeq(ops, LAMBDA o : o.err # "")} |->
                      out("(" \o JoinStr(Array([i \in 1..Len(ops) |-> ops[i].column]),
                                         " " \o expression.operator \o " ")
                              \o ")" \o aliasSuffix,
                          Flatten(Array([i \in 1..Len(ops) |-> ops[i].where])), FALSE,
                          IF failed = <<>> THEN "" ELSE failed[1].err)])])
         [] expression.type = "aggregate" ->
              With([alias \in {generateAlias(expression)} |->
                  With([targetExpr \in {translateExpression(expression.target[1], FALSE, cfg)} |->
                  With([agg \in {aggregationToSQL(expression, targetExpr.column, cfg)} |->
                 out(agg.sql \o " AS " \o alias,
                     targetExpr.where \o TimeRangeWhere(expression.time_range),
                     expression.time_range # <<>>,
                     IF targetExpr.err # "" THEN targetExpr.err ELSE agg.err)])])])

(***************************************************************************)
(* translateFilter.  rnd is the seed of Math.random() in this compilation  *)
(* and k the number of draws already made; the result is                   *)
(* [sql, touchesWindow, k, err].                                           *)
(***************************************************************************)
mapFilterOperatorToSQL(operator) ==
    CASE operator = "eq" -> "="         [] operator = "neq" -> "!="
      [] operator = "gt" -> ">"         [] operator = "gte" -> ">="
      [] operator = "lt" -> "<"         [] operator = "lte" -> "<="
      [] operator = "in" -> "IN"        [] operator = "nin" -> "NOT IN"
      [] operator = "contains" -> "LIKE"
      [] operator = "ncontains" -> "NOT LIKE"
      [] OTHER -> operator

\* filter.operator.toUpperCase()
UpperOperator(operator) ==
    CASE operator = "and" -> "AND" [] operator = "or" -> "OR"
      [] operator = "not" -> "NOT" [] OTHER -> operator

\* sideInfo(side): [txt, win, k, err]
sideInfo(ctxNodes, side, winAliases, rnd, k) ==
    IF side.kind = "input"
    THEN IF ~HasNode(ctxNodes, side.input)
         THEN [txt |-> "", win |-> FALSE, k |-> k, err |-> "TypeError"]
         ELSE With([n \in {NodeOf(ctxNodes, side.input)} |->
                  With([random \in {n.alias = NoAlias /\ n.expression = <<>>} |->
                  With([alias \in {IF n.alias # NoAlias THEN n.alias
                       ELSE IF n.expression = <<>>
                       THEN RandomAlias(RandomStream(rnd, k + 1))
                       ELSE generateAlias(n.expression[1])} |->
                 [txt |-> alias, win |-> alias \in winAliases,
                  k |-> IF random THEN k + 1 ELSE k, err |-> ""]])])])
    ELSE [txt |-> side.parameter, win |-> FALSE, k |-> k, err |-> ""]

RECURSIVE translateFilter(_, _, _, _, _, _)
RECURSIVE TranslateChildren(_, _, _, _, _, _, _)

\* the loop over childIds: [parts, anyWindow, k, err]
TranslateChildren(ctxNodes, childIds, i, ignoreIds, winAliases, rnd, k) ==
    IF i > Len(childIds) THEN [parts |-> <<>>, anyWindow |-> FALSE, k |-> k, err |-> ""]
    ELSE IF ~HasNode(ctxNodes, childIds[i])
    THEN [parts |-> <<>>, anyWindow |-> FALSE, k |-> k, err |-> "TypeError"]
    ELSE
    With([c \in {translateFilter(ctxNodes, NodeOf(ctxNodes, childIds[i]), ignoreIds,
                         winAliases, rnd, k)} |->
    IF c.err # ""
    THEN [parts |-> <<>>, anyWindow |-> FALSE, k |-> c.k, err |-> c.err]
    ELSE
    With([rest \in {TranslateChildren(ctxNodes, childIds, i + 1, ignoreIds, winAliases, rnd, c.k)} |->
    IF c.sql = "" THEN rest
    ELSE [rest EXCEPT !.parts = <<c.sql>> \o @,
                      !.anyWindow = c.touchesWindow \/ @]])])

translateFilter(ctxNodes, filter, ignoreIds, winAliases, rnd, k) ==
    IF filter.type = "composite-filter"
    THEN With([childIds \in {SelectSeq(filter.inputs, LAMBDA id : ~Includes(ignoreIds, id))} |->
         With([kids \in {TranslateChildren(ctxNodes, childIds, 1, ignoreIds, winAliases, rnd, k)} |->
            IF kids.err # "" \/ kids.parts = <<>>
            THEN [sql |-> "", touchesWindow |-> FALSE, k |-> kids.k, err |-> kids.err]
            ELSE IF filter.operator = "not"
            THEN [sql |-> "NOT (" \o kids.parts[1] \o ")",
                  touchesWindow |-> kids.anyWindow, k |-> kids.k, err |-> ""]
            ELSE [sql |-> "(" \o JoinStr(kids.parts,
                                         " " \o UpperOperator(filter.operator) \o " ")
                              \o ")",
                  touchesWindow |-> kids.anyWindow, k |-> kids.k, err |-> ""]])])
    ELSE IF filter.condition = <<>>
    THEN \* cond.left on a node that has no condition
         [sql |-> "", touchesWindow |-> FALSE, k |-> k, err |-> "TypeError"]
    ELSE With([cond \in {filter.condition[1]} |->
             With([L \in {sideInfo(ctxNodes, cond.left, winAliases, rnd, k)} |->
             With([R \in {sideInfo(ctxNodes, cond.right, winAliases, rnd, L.k)} |->
            IF L.err # "" \/ R.err # ""
            THEN [sql |-> "", touchesWindow |-> FALSE, k |-> R.k, err |-> "TypeError"]
            ELSE [sql |-> L.txt \o " " \o mapFilterOperatorToSQL(cond.op) \o " " \o R.txt,
                  touchesWindow |-> L.win \/ R.win, k |-> R.k, err |-> ""]])])])

(***************************************************************************)
(* QueryBuilder: choosing the CTE groups.  ctxNodes is context.nodes, the  *)
(* nodes in execution order; a group is [id, nodes] with id <<"cte", k>>.  *)
(***************************************************************************)
IsCteId(id) == id[1] = "cte"

IsAggregateNode(n) == n.type = "expression" /\ n.expression[1].type = "aggregate"

HasTimeRange(n) == IsAggregateNode(n) /\ n.expression[1].time_range # <<>>

shouldFilterBeCTE(ctxNodes, node) ==
    /\ Len(node.inputs) = 1
    /\ With([parents \in {findDependentNodes(ctxNodes, node.id)} |->
          parents # <<>> /\ parents[1].type = "projection"])

shouldExpressionBeCTE(ctxNodes, node) ==
    \/ Len(findDependentNodes(ctxNodes, node.id)) > 1
    \/ Len(node.inputs) > 1
    \/ /\ HasTimeRange(node)
       /\ With([timeRanges \in {{ctxNodes[i].expression[1].time_range[1] :
                   i \in {j \in 1..Len(ctxNodes) : HasTimeRange(ctxNodes[j])}}} |->
             Cardinality(timeRanges) > 1 \/ node.expression[1].time_range[1].type = "relative"])

shouldBeCTE(ctxNodes, node) ==
    IF node.type = "filter" THEN shouldFilterBeCTE(ctxNodes, node)
    ELSE IF node.type = "expression" THEN shouldExpressionBeCTE(ctxNodes, node)
    ELSE Len(findDependentNodes(ctxNodes, node.id)) > 1

\* n.inputs.every(id => ids.includes(id))
EveryInputIn(n, ids) == \A i \in 1..Len(n.inputs) : Includes(ids, n.inputs[i])

\* group.nodes as groupNodesForCTE fills it for one seed, before
\* handleExistingGroups
SeedGroupNodes(ctxNodes, cteNode) ==
    With([dependentNodes \in {SelectSeq(ctxNodes, LAMBDA n :
             /\ Includes(n.inputs, cteNode.id) /\ Len(n.inputs) = 1
             /\ n.type # "sort"
             /\ (n.type # "expression" \/ n.expression[1].type = "metric")
             /\ n.type # "filter")} |->
    With([projectionIds \in {NodeIds(SelectSeq(ctxNodes, LAMBDA n :
             n.type = "projection" /\ Includes(n.inputs, cteNode.id)))} |->
    With([lastIds \in {NodeIds(SelectSeq(ctxNodes, LAMBDA n :
             /\ IsAggregateNode(n) /\ n.expression[1].aggregation = "last"
             /\ EveryInputIn(n, projectionIds)))} |->
    With([filterNodes1 \in {SelectSeq(ctxNodes, LAMBDA n :
             /\ n.type = "filter" /\ EveryInputIn(n, projectionIds)
             /\ \A m \in 1..Len(ctxNodes) :
                    Includes(ctxNodes[m].inputs, n.id) => ~IsAggregateNode(ctxNodes[m]))} |->
    With([filterNodes2 \in {SelectSeq(ctxNodes, LAMBDA n : n.type = "filter" /\ EveryInputIn(n, lastIds))} |->
    cteNode.inputs \o <<cteNode.id>> \o NodeIds(dependentNodes)
    \o projectionIds \o lastIds
    \o NodeIds(filterNodes1) \o NodeIds(filterNodes2)])])])])])

\* the inner loop of handleExistingGroups for one id n of the copy
RECURSIVE ReplaceInGroup(_, _, _, _)
ReplaceInGroup(current, n, groups, g) ==
    IF g > Len(groups) THEN current
    ELSE
    With([next \in {IF Includes(groups[g].nodes, n)
         THEN Append(Without(current, n), groups[g].id) ELSE current} |->
    ReplaceInGroup(next, n, groups, g + 1)])

\* handleExistingGroups: the loop over a copy of group.nodes, then the Set
RECURSIVE ReplaceByGroups(_, _, _)
ReplaceByGroups(current, copy, groups) ==
    IF copy = <<>> THEN current
    ELSE With([next \in {ReplaceInGroup(current, Head(copy), groups, 1)} |->
         ReplaceByGroups(next, Tail(copy), groups)])

handleExistingGroups(groupNodes, groups) ==
    Unique(ReplaceByGroups(groupNodes, groupNodes, groups))

RECURSIVE GroupSeeds(_, _, _)
GroupSeeds(ctxNodes, seeds, groups) ==
    IF seeds = <<>> THEN groups
    ELSE
    With([seeded \in {SeedGroupNodes(ctxNodes, Head(seeds))} |->
    With([groups1 \in {Append(groups, [id |-> <<"cte", Len(groups)>>,
                         nodes |-> handleExistingGroups(seeded, groups)])} |->
    GroupSeeds(ctxNodes, Tail(seeds), groups1)])])

groupNodesForCTE(ctxNodes) ==
    With([seeds \in {SelectSeq(ctxNodes, LAMBDA n : shouldBeCTE(ctxNodes, n))} |->
    GroupSeeds(ctxNodes, seeds, <<>>)])

\* removeUnusedCTENodes: st = [groups, kept]; groups are rewritten in place
\* while the loop runs, kept lists the indexes pushed to finalGroups
RECURSIVE DropUnused(_, _)
DropUnused(st, i) ==
    IF i > Len(st.groups) THEN st
    ELSE
    With([g \in {st.groups[i]} |->
    With([cteNodes \in {SelectSeq(g.nodes, IsCteId)} |->
    With([st1 \in {IF cteNodes = <<>> \/ Len(g.nodes) # 1
         THEN [st EXCEPT !.kept = Append(@, i)]
         ELSE [st EXCEPT !.groups =
                  Array([j \in 1..Len(@) |->
                      [@[j] EXCEPT !.nodes =
                          Array([m \in 1..Len(@) |->
                              IF @[m] = g.id THEN cteNodes[1] ELSE @[m]])]])]} |->
    DropUnused(st1, i + 1)])])])

removeUnusedCTENodes(groups) ==
    With([st \in {DropUnused([groups |-> groups, kept |-> <<>>], 1)} |->
       Array([i \in 1..Len(st.kept) |-> st.groups[st.kept[i]]])])

(***************************************************************************)
(* QueryBuilder: time ranges                                               *)
(***************************************************************************)
\* mapTimeUnitToSeconds(unit)
mapTimeUnitToSeconds(unit) ==
    CASE unit = "second" -> 1     [] unit = "minute" -> 60
      [] unit = "hour" -> 3600    [] unit = "day" -> 86400
      [] unit = "week" -> 604800  [] unit = "month" -> 2592000
      [] unit = "year" -> 31536000 [] OTHER -> 0

\* ten times getTradingUnitMultiplier(unit) (3, 1.5, 1.3, 1)
TradingMultiplier10(unit) ==
    CASE unit = "hour" -> 30 [] unit = "day" -> 15 [] unit = "week" -> 13 [] OTHER -> 10

\* ten times the duration chooseLargestTimeRange computes for a range
Duration10(range) ==
    CASE range.type = "relative" -> range.duration * mapTimeUnitToSeconds(range.unit) * 10
      [] range.type = "trading" ->
            range.duration * mapTimeUnitToSeconds(range.unit) *
            (IF range.unit \in {"hour", "day", "week"} THEN TradingMultiplier10(range.unit)
             ELSE 10)
      [] range.type = "absolute" -> (range.to - range.from) * 10
      [] OTHER -> 0

\* chooseLargestTimeRange(timeRanges), as a 0/1 sequence
chooseLargestTimeRange(timeRanges) ==
    LET F[i \in 0..Len(timeRanges)] ==
            IF i = 0 THEN [largestRange |-> <<>>, largestDuration |-> 0]
            ELSE IF Duration10(timeRanges[i]) > F[i - 1].largestDuration
            THEN [largestRange |-> <<timeRanges[i]>>,
                  largestDuration |-> Duration10(timeRanges[i])]
            ELSE F[i - 1]
    IN F[Len(timeRanges)].largestRange

\* context.timeRanges
ContextTimeRanges(ctxNodes) ==
    Flatten(Array([i \in 1..Len(ctxNodes) |->
                IF IsAggregateNode(ctxNodes[i]) THEN ctxNodes[i].expression[1].time_range
                ELSE <<>>]))

\* addLargestTimeRangeFilter: the PREWHERE predicates of a CTE
addLargestTimeRangeFilter(srcCfgs, timeRanges) ==
    IF srcCfgs = <<>> THEN <<>>
    ELSE
    With([ltr \in {chooseLargestTimeRange(timeRanges)} |->
    IF ltr = <<>> THEN <<>>
    ELSE
    With([tc \in {srcCfgs[1].name \o "." \o OrUndefined(srcCfgs[1].timeColumn)} |->
    IF ltr[1].type = "relative"
    THEN <<tc \o " >= toDate(date_sub(now(), INTERVAL " \o ToString(ltr[1].duration)
           \o " " \o UpperUnit(ltr[1].unit) \o "))">>
    ELSE IF ltr[1].type = "absolute"
    THEN <<tc \o " BETWEEN toDate('" \o IsoDate(ltr[1].from * 1000 - 86400)
           \o "') AND toDate('" \o IsoDate(ltr[1].to * 1000) \o "')">>
    ELSE <<>>])])

(***************************************************************************)
(* generateCTESQL                                                          *)
(***************************************************************************)
\* joinTables(tabs, srcs, ctes) for ctes = [] and tables that share a key:
\* the chain of INNER JOINs from the i-th table on
RECURSIVE joinTables(_, _)
joinTables(tabs, i) ==
    IF i > Len(tabs) THEN ""
    ELSE " INNER JOIN " \o tabs[i].name \o " ON " \o tabs[i - 1].name \o "."
         \o CommonPK(tabs[i - 1], tabs[i])[1] \o " = " \o tabs[i].name \o "."
         \o CommonPK(tabs[i - 1], tabs[i])[1] \o joinTables(tabs, i + 1)

\* [fromStmt, err]
CteFrom(srcCfgs, cteIds) ==
    IF Len(srcCfgs) > 1
    THEN IF \E i \in 2..Len(srcCfgs) : CommonPK(srcCfgs[i - 1], srcCfgs[i]) = <<>>
         THEN [fromStmt |-> "", err |-> "NoPKOverlap"]
         \* (this.context.nodes[ct] as ProjectionNode).inputs on a group id
         ELSE IF cteIds # <<>> THEN [fromStmt |-> "", err |-> "TypeError"]
         ELSE [fromStmt |-> "FROM " \o srcCfgs[1].name \o joinTables(srcCfgs, 2),
               err |-> ""]
    ELSE
    With([rest \in {IF srcCfgs = <<>> THEN Tail(cteIds) ELSE cteIds} |->
    With([tail \in {IF rest # <<>> THEN " " \o JoinStr(MapSeq(IdStr, rest), ", ") ELSE ""} |->
    IF Len(srcCfgs) = 1
    THEN [fromStmt |-> "FROM " \o srcCfgs[1].name \o tail, err |-> ""]
    ELSE [fromStmt |-> "FROM " \o IdStr(cteIds[1]) \o tail, err |-> ""]])])

\* pushPredicate: does the predicate go to QUALIFY
TouchesWindow(sql, windowAliases) ==
    (\E a \in windowAliases : ContainsWord(sql, a)) \/ inlineWindowRegex(sql)

\* the where/qualify lists after pushing the predicates of a list, in order
RECURSIVE PushPredicates(_, _, _)
PushPredicates(st, sqls, windowAliases) ==
    IF sqls = <<>> THEN st
    ELSE
    With([st1 \in {IF Head(sqls) = "" THEN st
         ELSE IF TouchesWindow(Head(sqls), windowAliases)
         THEN [st EXCEPT !.qualify = Append(@, Head(sqls))]
         ELSE [st EXCEPT !.where = Append(@, Head(sqls))]} |->
    PushPredicates(st1, Tail(sqls), windowAliases)])

\* STEP 3 of generateCTESQL: st = [where, qualify, seen, k, err], and in
\* applied the ids of the filter nodes whose sql was pushed
RECURSIVE CteFilters(_, _, _, _, _)
CteFilters(st, ctxNodes, filterIds, windowAliases, rnd) ==
    IF filterIds = <<>> \/ st.err # "" THEN st
    ELSE
    With([f \in {translateFilter(ctxNodes, NodeOf(ctxNodes, Head(filterIds)), <<>>,
                         windowAliases, rnd, st.k)} |->
    With([st1 \in {[st EXCEPT !.k = f.k, !.err = f.err]} |->
    With([st2 \in {IF f.err # "" \/ f.sql = "" \/ f.sql \in st.seen THEN st1
         ELSE IF f.touchesWindow
         THEN [st1 EXCEPT !.seen = @ \cup {f.sql}, !.qualify = Append(@, f.sql),
                          !.applied = Append(@, Head(filterIds))]
         ELSE [st1 EXCEPT !.seen = @ \cup {f.sql}, !.where = Append(@, f.sql),
                          !.applied = Append(@, Head(filterIds))]} |->
    CteFilters(st2, ctxNodes, Tail(filterIds), windowAliases, rnd)])])])

\* the SELECT entries of the projection nodes of a group
ProjectionColumns(ctxNodes, projIds) ==
    Flatten(Array([i \in 1..Len(projIds) |->
        With([p \in {NodeOf(ctxNodes, projIds[i])} |->
           Array([c \in 1..Len(p.columns) |->
               IF p.columns[c].alias # NoAlias
               THEN p.columns[c].name \o " AS " \o p.columns[c].alias
               ELSE p.columns[c].name])])]))

\* translateExpression({...e.expression, alias: e.alias}) for each expression
\* node of a group
ExpressionOutputs(ctxNodes, exprIds, cfg) ==
    Array([i \in 1..Len(exprIds) |->
        With([e \in {NodeOf(ctxNodes, exprIds[i])} |->
           translateExpression([e.expression[1] EXCEPT !.alias = e.alias], FALSE, cfg)])])

\* group.nodes.filter(n => getNode(n).type === t), over the ids that are nodes
IdsOfType(ctxNodes, ids, t) == SelectSeq(ids, LAMBDA id : NodeOf(ctxNodes, id).type = t)

\* if (list.length > 0) sql += `\n<word> ${list.join(sep)}`
Clause(word, list, sep) ==
    IF list = <<>> THEN "" ELSE "\n" \o word \o " " \o JoinStr(list, sep)

\* STEP 4 of generateCTESQL: [limitClause, groupBy]
CteLimit(ctxNodes, nonCte) ==
    With([limIds \in {IdsOfType(ctxNodes, nonCte, "limit")} |->
    IF limIds = <<>> THEN [limitClause |-> "", groupBy |-> <<>>]
    ELSE
    With([limitNode \in {NodeOf(ctxNodes, limIds[1])} |->
    IF limitNode.metadata.isGrouped /\ limitNode.metadata.groupDimension # ""
    THEN [limitClause |-> "LIMIT " \o ToString(limitNode.limit) \o " BY "
                          \o limitNode.metadata.groupDimension,
          groupBy |-> <<limitNode.metadata.groupDimension>>]
    ELSE [limitClause |-> "LIMIT " \o ToString(limitNode.limit), groupBy |-> <<>>]])])

\* what generateCTESQL returns when it returns nothing or throws
NoCte(group, k, err) ==
    [defined |-> FALSE, id |-> group.id, sql |-> "", columns |-> <<>>,
     where |-> <<>>, qualify |-> <<>>, applied |-> <<>>, k |-> k, err |-> err]

\* generateCTESQL(group) with k random strings used so far:
\* [defined, id, sql, columns, where, qualify, k, err]
generateCTESQL(ctxNodes, cfg, group, rnd, k) ==
    With([cteIds \in {SelectSeq(group.nodes, IsCteId)} |->
    With([nonCte \in {SelectSeq(group.nodes, LAMBDA id : ~IsCteId(id))} |->
    With([sourceIds \in {IdsOfType(ctxNodes, nonCte, "source")} |->
    IF sourceIds = <<>> /\ cteIds = <<>> THEN NoCte(group, k, "")
    ELSE
    With([srcCfgs \in {Array([i \in 1..Len(sourceIds) |-> cfg.tables[NodeOf(ctxNodes, sourceIds[i]).table]])} |->
    With([from \in {CteFrom(srcCfgs, cteIds)} |->
    IF from.err # "" THEN NoCte(group, k, from.err)
    ELSE
    With([preWhere \in {addLargestTimeRangeFilter(srcCfgs, ContextTimeRanges(ctxNodes))} |->
    With([projIds \in {IdsOfType(ctxNodes, nonCte, "projection")} |->
    With([exprIds \in {IdsOfType(ctxNodes, nonCte, "expression")} |->
    With([windowAliases \in {{NodeOf(ctxNodes, exprIds[i]).alias :
             i \in {j \in 1..Len(exprIds) : HasTimeRange(NodeOf(ctxNodes, exprIds[j]))}}
         \ {NoAlias}} |->
    With([outs \in {ExpressionOutputs(ctxNodes, exprIds, cfg)} |->
    With([failed \in {SelectSeq(outs, LAMBDA o : o.err # "")} |->
    IF failed # <<>> THEN NoCte(group, k, failed[1].err)
    ELSE
    With([cols \in {Unique((IF projIds = <<>> /\ exprIds = <<>> THEN <<"*">> ELSE <<>>)
                \o ProjectionColumns(ctxNodes, projIds)
                \o Array([i \in 1..Len(outs) |-> outs[i].column]))} |->
    With([pushedSqls \in {Flatten(Array([i \in 1..Len(outs) |-> outs[i].where]))} |->
    With([pushed \in {PushPredicates([where |-> <<>>, qualify |-> <<>>], pushedSqls, windowAliases)} |->
    With([filtered \in {CteFilters([where |-> pushed.where, qualify |-> pushed.qualify,
                     seen |-> {}, applied |-> <<>>, k |-> k, err |-> ""],
                    ctxNodes, IdsOfType(ctxNodes, nonCte, "filter"), windowAliases, rnd)} |->
    IF filtered.err # "" THEN NoCte(group, filtered.k, filtered.err)
    ELSE
    With([lim \in {CteLimit(ctxNodes, nonCte)} |->
    With([sql \in {"SELECT " \o JoinStr(cols, ", ") \o "\n" \o from.fromStmt
         \o Clause("PREWHERE", preWhere, " AND ")
         \o Clause("QUALIFY", filtered.qualify, " AND ")
         \o Clause("WHERE", filtered.where, " AND ")
         \o Clause("GROUP BY", lim.groupBy, ", ")
         \o (IF lim.limitClause # "" THEN "\n" \o lim.limitClause ELSE "")} |->
    [defined |-> TRUE, id |-> group.id,
     sql |-> IdStr(group.id) \o " AS (\n" \o sql \o "\n)",
     columns |-> MapSeq(ColumnName, cols),
     where |-> filtered.where, qualify |-> filtered.qualify,
     applied |-> filtered.applied,
     k |-> filtered.k, err |-> ""]])])])])])])])])])])])])])])])])])

\* nodeGroups.map(group => this.generateCTESQL(group)): [ctes, k, err]
RECURSIVE GenerateAll(_, _, _, _, _, _)
GenerateAll(ctxNodes, cfg, groups, i, rnd, k) ==
    IF i > Len(groups) THEN [ctes |-> <<>>, k |-> k, err |-> ""]
    ELSE
    With([c \in {generateCTESQL(ctxNodes, cfg, groups[i], rnd, k)} |->
    IF c.err # "" THEN [ctes |-> <<>>, k |-> c.k, err |-> c.err]
    ELSE
    With([rest \in {GenerateAll(ctxNodes, cfg, groups, i + 1, rnd, c.k)} |->
    IF rest.err # "" \/ ~c.defined THEN rest
    ELSE [rest EXCEPT !.ctes = <<c>> \o @]])])

(***************************************************************************)
(* buildMainQuery / assembleSQL                                            *)
(***************************************************************************)
\* addCTEColumns: the SELECT list of the main query
addCTEColumns(cteSqls) ==
    With([all \in {Flatten(Array([i \in 1..Len(cteSqls) |->
             Array([c \in 1..Len(cteSqls[i].columns) |->
                 [id |-> cteSqls[i].id, col |-> cteSqls[i].columns[c]]])]))} |->
       Array([i \in 1..Len(all) |->
           IF \E j \in 1..(i - 1) : all[j].col = all[i].col
           THEN IdStr(all[i].id) \o "." \o all[i].col
           ELSE IdStr(all[i].id) \o "." \o all[i].col \o " AS " \o all[i].col])])

buildFromClause(cteSqls) ==
    IF cteSqls = <<>> THEN ""
    ELSE " FROM " \o JoinStr(Array([i \in 1..Len(cteSqls) |-> IdStr(cteSqls[i].id)]),
                             " CROSS JOIN ")

\* the window aliases of the SELECT scope of the main query
MainWindowAliases(nonCteNodes) ==
    {nonCteNodes[i].alias :
        i \in {j \in 1..Len(nonCteNodes) : HasTimeRange(nonCteNodes[j])}}

\* the loop of addFilters: st = [filters, qualify, k, err], and in applied
\* the ids of the filter nodes whose sql was pushed
RECURSIVE MainFilters(_, _, _, _, _, _)
MainFilters(st, ctxNodes, filterNodes, alreadyApplied, windowAliases, rnd) ==
    IF filterNodes = <<>> \/ st.err # "" THEN st
    ELSE IF Head(filterNodes).id \in alreadyApplied
    THEN MainFilters(st, ctxNodes, Tail(filterNodes), alreadyApplied, windowAliases, rnd)
    ELSE
    With([f \in {translateFilter(ctxNodes, Head(filterNodes), <<>>, windowAliases, rnd, st.k)} |->
    With([st1 \in {[st EXCEPT !.k = f.k, !.err = f.err]} |->
    With([st2 \in {IF f.err # "" \/ f.sql = "" THEN st1
         ELSE IF f.touchesWindow
         THEN [st1 EXCEPT !.qualify = Append(@, f.sql),
                          !.applied = Append(@, Head(filterNodes).id)]
         ELSE [st1 EXCEPT !.filters = Append(@, f.sql),
                          !.applied = Append(@, Head(filterNodes).id)]} |->
    MainFilters(st2, ctxNodes, Tail(filterNodes), alreadyApplied, windowAliases, rnd)])])])

addFilters(ctxNodes, nonCteNodes, nodeGroups, rnd, k) ==
    With([filterNodes \in {SelectSeq(nonCteNodes, IsFilterType)} |->
    With([alreadyApplied \in {UNION {{g.nodes[i] : i \in {j \in 1..Len(g.nodes) :
                                g.nodes[j][1] \in {"filter", "composite-filter"}}} :
                g \in Range(nodeGroups)}} |->
    With([windowAliases \in {MainWindowAliases(nonCteNodes)} |->
    MainFilters([filters |-> <<>>, qualify |-> <<>>, applied |-> <<>>, k |-> k, err |-> ""],
                ctxNodes, filterNodes, alreadyApplied, windowAliases, rnd)])])])

\* one criterion of translateSortNode
SortCriterion(ctxNodes, c) ==
    IF c.expression.kind # "node" THEN c.expression.literal \o " " \o c.direction
    ELSE IF ~HasNode(ctxNodes, c.expression.node)
    THEN IdStr(c.expression.node) \o " " \o c.direction
    ELSE
    With([n \in {NodeOf(ctxNodes, c.expression.node)} |->
    (IF n.alias # NoAlias THEN n.alias ELSE IdStr(c.expression.node))
    \o " " \o c.direction])

translateSortNode(ctxNodes, node) ==
    JoinStr(Array([i \in 1..Len(node.criteria) |-> SortCriterion(ctxNodes, node.criteria[i])]),
            ", ")

addOrderBy(ctxNodes, nonCteNodes) ==
    With([orderBys \in {SelectSeq(nonCteNodes, LAMBDA n : n.type = "sort")} |->
    Array([i \in 1..Len(orderBys) |-> translateSortNode(ctxNodes, orderBys[i])])])

\* addLimit: [limitSql, groupBy]
addLimit(nonCteNodes) ==
    With([limits \in {SelectSeq(nonCteNodes, LAMBDA n : n.type = "limit")} |->
    IF limits = <<>> THEN [limitSql |-> "", groupBy |-> <<>>]
    ELSE
    With([limitNode \in {limits[1]} |->
    IF limitNode.metadata.isGrouped /\ limitNode.metadata.groupDimension # ""
    THEN [limitSql |-> "LIMIT " \o ToString(limitNode.limit) \o " BY "
                       \o limitNode.metadata.groupDimension,
          groupBy |-> <<limitNode.metadata.groupDimension>>]
    ELSE [limitSql |-> "LIMIT " \o ToString(limitNode.limit), groupBy |-> <<>>]])])

\* the clause `<word> <list joined>` of assembleSQL, if the list is not empty
Part(word, list, sep) ==
    IF list = <<>> THEN <<>> ELSE <<word \o " " \o JoinStr(list, sep)>>

\* assembleSQL over the fields of the builder: the text of the statement
assembleSQL(b) ==
    With([parts \in {<<"SELECT " \o JoinStr(b.cols, ", "), b.fromStmt>>
         \o Part("PREWHERE", b.preFilters, " AND ")
         \o Part("WHERE", b.filters, " AND ")
         \o Part("QUALIFY", b.qualify, " AND ")
         \o Part("GROUP BY", Unique(b.groupBy), ", ")
         \o Part("ORDER BY", b.orderBy, ", ")
         \o (IF b.limitSql # "" THEN <<b.limitSql>> ELSE <<>>)} |->
    b.sql \o JoinStr(parts, "\n")])

\* the result of a compilation that threw
Thrown(e) ==
    [err |-> e, query |-> "", ctes |-> <<>>, filters |-> <<>>, qualify |-> <<>>,
     orderBy |-> <<>>, limitSql |-> "", groups |-> <<>>]

\* QueryBuilder.fromComputeGraph(graph).translateToSQL(), rnd being the seed
\* of Math.random(): the statement and, next to its text, the clauses it was
\* assembled from
translateToSQL(ns, cfg, rnd) ==
    With([order \in {getExecutionOrder(ns)} |->
    IF order.err # "" THEN Thrown(order.err)
    ELSE
    With([ctxNodes \in {Array([i \in 1..Len(order.ordered) |-> NodeOf(ns, order.ordered[i])])} |->
    With([allGroups \in {groupNodesForCTE(ctxNodes)} |->
    With([nodeGroups \in {removeUnusedCTENodes(allGroups)} |->
    With([generated \in {GenerateAll(ctxNodes, cfg, nodeGroups, 1, rnd, 0)} |->
    IF generated.err # "" THEN Thrown(generated.err)
    ELSE
    With([cteSqls \in {generated.ctes} |->
    With([nonCteNodes \in {SelectSeq(ctxNodes, LAMBDA n :
             ~\E g \in 1..Len(nodeGroups) : Includes(nodeGroups[g].nodes, n.id))} |->
    With([main \in {addFilters(ctxNodes, nonCteNodes, nodeGroups, rnd, generated.k)} |->
    IF main.err # "" THEN Thrown(main.err)
    ELSE
    With([limit \in {addLimit(nonCteNodes)} |->
    With([b \in {[sql |-> IF cteSqls = <<>> THEN ""
                  ELSE "WITH " \o JoinStr(Array([i \in 1..Len(cteSqls) |-> cteSqls[i].sql]),
                                          ",\n") \o "\n",
          cols |-> addCTEColumns(cteSqls), fromStmt |-> buildFromClause(cteSqls),
          preFilters |-> <<>>, filters |-> main.filters, qualify |-> main.qualify,
          groupBy |-> limit.groupBy, orderBy |-> addOrderBy(ctxNodes, nonCteNodes),
          limitSql |-> limit.limitSql]} |->
    [err |-> "", query |-> assembleSQL(b),
     ctes |-> Array([i \in 1..Len(cteSqls) |->
                  [id |-> cteSqls[i].id, sql |-> cteSqls[i].sql,
                   where |-> cteSqls[i].where, qualify |-> cteSqls[i].qualify,
                   applied |-> cteSqls[i].applied]]),
     filters |-> b.filters, qualify |-> b.qualify, applied |-> main.applied,
     orderBy |-> b.orderBy,
     limitSql |-> b.limitSql, groups |-> nodeGroups]])])])])])])])])])])

(***************************************************************************)
(* buildQuery (src/src/compiler/index.ts)                                  *)
(***************************************************************************)
\* buildQuery(req) with Math.random() seeded by rnd: [out, parameters, x],
\* out being the statement or the error, x the request as the call left it
buildQuery(cfg, req, rnd) ==
    With([built \in {processUserQuery(cfg, req)} |->
    With([optimized \in {optimize(built.g, cfg, FALSE)} |->
    With([out \in {IF optimized.err # "" THEN Thrown(optimized.err)
         ELSE translateToSQL(optimized.nodes, cfg, rnd)} |->
    [out |-> out, parameters |-> optimized.parameters, x |-> built.x]])])])

(***************************************************************************)
(* The requests explored                                                   *)
(***************************************************************************)
MaxFilters == 2        \* children of a composite filter
MaxOptimizeCalls == 2  \* optimize() calls on one graph
MaxSeed == 2           \* seeds of Math.random()
MaxInputs == 2         \* inputs of a node of a hand-built graph

Close == MetricExpr("close")
Volume == MetricExpr("volume")
Sector == MetricExpr("sector")
Ticker == MetricExpr("ticker")
Hundred == ConstantExpr(NumV(100))

AvgClose30 == AggregateExpr("avg", Close, <<RelativeRange(30, "day")>>, NoAlias)
AvgClose90 == AggregateExpr("avg", Close, <<RelativeRange(90, "day")>>, NoAlias)
Return30 == AggregateExpr("diff_pct", Close, <<RelativeRange(30, "day")>>, "return_30d")
LastClose5 == AggregateExpr("last", Close, <<TradingRange(5, "day")>>, NoAlias)
EmaClose30 == AggregateExpr("ema", Close, <<RelativeRange(30, "day")>>, NoAlias)
\* an absolute range from day 1 to day 20 of the epoch (in seconds)
AvgCloseDays == AggregateExpr("avg", Close, <<AbsoluteRange(86400, 1728000)>>,
                              "avg_days")
SumVolume == AggregateExpr("sum", Volume, <<>>, NoAlias)
CloseTimes2 == MathExpr("*", <<Close, ConstantExpr(NumV(2))>>, NoAlias)
CloseOverVolume == MathExpr("/", <<Close, Volume>>, "ratio")
CloseAlone == MathExpr("+", <<Close>>, NoAlias)

SectorIsTech == SimpleFilter(Sector, "eq", ConstantExpr(StrV("Tech")))
TickerIsAapl == SimpleFilter(Ticker, "eq", ConstantExpr(StrV("AAPL")))
AvgAbove == SimpleFilter(AvgClose30, "gt", Hundred)
AvgBelow == SimpleFilter(AvgClose30, "lt", ConstantExpr(NumV(200)))
ReturnAbove == SimpleFilter(Return30, "gt", ConstantExpr(NumV(10)))

\* an aggregate that carries a filter of its own
AvgCloseLiquid ==
    [AvgClose30 EXCEPT !.filter = <<SimpleFilter(Volume, "gt", Hundred)>>]

SimpleFilters ==
    {SectorIsTech, AvgAbove, AvgBelow, ReturnAbove,
     TickerIsAapl,
     SimpleFilter(Close, "gt", Hundred),
     SimpleFilter(Close, "gt", Volume),
     \* a constant on the left of a metric
     SimpleFilter(Hundred, "lt", Close),
     SimpleFilter(AvgClose90, "gt", Hundred),
     SimpleFilter(LastClose5, "gt", Hundred),
     SimpleFilter(EmaClose30, "gt", Hundred),
     SimpleFilter(AvgCloseDays, "gt", Hundred),
     SimpleFilter(SumVolume, "gt", Hundred),
     SimpleFilter(AvgCloseLiquid, "gt", Hundred),
     SimpleFilter(CloseTimes2, "gt", Hundred),
     SimpleFilter(CloseOverVolume, "lt", Hundred),
     SimpleFilter(Sector, "contains", ConstantExpr(StrV("Tech"))),
     SimpleFilter(Sector, "in", ConstantExpr(ArrV(<<StrV("Tech"), StrV("Energy")>>)))}

\* the filters composites are made of
CompositePool == {SectorIsTech, AvgAbove, AvgBelow, ReturnAbove}

CompositeFilters ==
    {CompositeFilter(op, kids) :
        op \in {"and", "or", "not"},
        kids \in UNION {[1..n -> CompositePool] : n \in 1..MaxFilters}}

NestedFilters ==
    {CompositeFilter("and",
        <<SectorIsTech, CompositeFilter("or", <<AvgAbove, ReturnAbove>>)>>),
     CompositeFilter("and",
        <<AvgAbove, SimpleFilter(AvgClose90, "gt", Hundred)>>),
     \* a filter on ticker, of the table tickers, beside one on daily_agg
     CompositeFilter("and", <<TickerIsAapl, AvgAbove>>),
     CompositeFilter("and", <<TickerIsAapl, SimpleFilter(Close, "gt", Hundred)>>),
     CompositeFilter("or",
        <<SimpleFilter(Close, "gt", Hundred), SimpleFilter(Close, "lt", Volume)>>),
     \* a filter on a column beside one on a window aggregate of the same table
     CompositeFilter("and",
        <<SimpleFilter(Close, "gt", Hundred), SimpleFilter(LastClose5, "gt", Hundred)>>),
     \* two filters over the same two aggregates
     CompositeFilter("or",
        <<SimpleFilter(AvgClose30, "gt", AvgClose90),
          SimpleFilter(AvgClose30, "lt", AvgClose90)>>),
     \* an aggregate over 90 days ahead of two over 30 days
     CompositeFilter("and",
        <<SimpleFilter(AvgClose90, "gt", Hundred), AvgAbove, AvgBelow>>),
     \* the same math expression in two filters: of two operands, of one
     CompositeFilter("and",
        <<SimpleFilter(CloseOverVolume, "gt", Hundred),
          SimpleFilter(CloseOverVolume, "lt", ConstantExpr(NumV(200)))>>),
     CompositeFilter("and",
        <<SimpleFilter(CloseAlone, "gt", Hundred),
          SimpleFilter(CloseAlone, "lt", ConstantExpr(NumV(200)))>>)}

Filters == SimpleFilters \cup CompositeFilters \cup NestedFilters

\* group_by, sort_by and limit of a request
Tails ==
    {[group_by |-> <<>>, sort_by |-> <<>>, limit |-> 0],
     [group_by |-> <<>>, sort_by |-> <<>>, limit |-> 100],
     [group_by |-> <<>>, sort_by |-> <<SortCrit(Return30, "desc")>>, limit |-> 10],
     [group_by |-> <<>>, sort_by |-> <<SortCrit(Close, "asc")>>, limit |-> 0],
     [group_by |-> <<GroupDim("sector")>>, sort_by |-> <<>>, limit |-> 100],
     [group_by |-> <<GroupTopN("sector", 3, <<SumVolume>>)>>, sort_by |-> <<>>,
      limit |-> 100]}

Queries == {UserQueryOf(f, t.group_by, t.sort_by, t.limit) : f \in Filters, t \in Tails}

(***************************************************************************)
(* One compilation, stage by stage, and a second buildQuery() after it     *)
(***************************************************************************)
NoOutput == Thrown("none")
NoRun == [out |-> NoOutput, parameters |-> <<>>]
NoOrder == [err |-> "none", ordered |-> <<>>]
NoStages ==
    [lowered |-> <<>>, joined |-> <<>>, deduped |-> <<>>, inlined |-> <<>>,
     merged |-> <<>>, spliced |-> <<>>, distinct |-> <<>>]

Graph == [nodes |-> nodes, counter |-> nodeTypesCounter, parameters |-> parameters,
          err |-> ""]

Init ==
    /\ request \in Queries
    /\ userQuery = request
    /\ nodes = <<>>
    /\ nodeTypesCounter = nodeTypesCounterInit
    /\ parameters = <<>>
    /\ pc = "new"
    /\ error = ""
    /\ risky = FALSE
    /\ optimizeCalls = 0
    /\ nodesBefore = <<>>
    /\ stages = NoStages
    /\ sqlOut = NoOutput
    /\ secondRun = NoRun
    /\ execOrder = NoOrder
    /\ calls = <<>>
    /\ instances = <<>>
    /\ config = DEFAULT_CONFIG

\* new ComputeGraph(userQuery)
Construct ==
    /\ pc = "new"
    /\ \E built \in {processUserQuery(config, userQuery)} :
          /\ nodes' = built.g.nodes
          /\ nodeTypesCounter' = built.g.counter
          /\ parameters' = built.g.parameters
          /\ userQuery' = built.x
          /\ error' = built.g.err
          /\ stages' = [NoStages EXCEPT !.lowered = built.lowered,
                                        !.joined = built.joined]
          /\ pc' = IF built.g.err = "" THEN "constructed" ELSE "failed"
    /\ nodesBefore' = nodes
    /\ UNCHANGED <<request, risky, optimizeCalls, sqlOut, secondRun, execOrder, calls, instances,
                   config>>

\* graph.optimize(r)
Optimize(r) ==
    /\ pc \in {"constructed", "optimized"}
    /\ optimizeCalls < MaxOptimizeCalls
    /\ \E g \in {optimize(Graph, config, r)} :
          /\ nodes' = g.nodes
          /\ nodeTypesCounter' = g.counter
          /\ parameters' = g.parameters
          /\ error' = g.err
          /\ pc' = IF g.err = "" THEN "optimized" ELSE "failed"
    /\ \E deduped \in {removedDuplicateProjections(Graph)} :
       \E inlined \in {inlineParameters(deduped)} :
       \E merged \in {mergeFilters(inlined)} :
       \E spliced \in {removeUselessCompositeFilters(merged)} :
          stages' = [stages EXCEPT
                        !.deduped = deduped.nodes,
                        !.inlined = inlined.nodes,
                        !.merged = merged.nodes,
                        !.spliced = spliced.nodes,
                        !.distinct = removeDuplicateProjectionExpressions(spliced).nodes]
    /\ nodesBefore' = nodes
    /\ risky' = (risky \/ r)
    /\ optimizeCalls' = optimizeCalls + 1
    /\ UNCHANGED <<request, userQuery, sqlOut, secondRun, execOrder, calls, instances,
                   config>>

\* QueryBuilder.fromComputeGraph(graph).translateToSQL()
Translate(rnd) ==
    /\ pc = "optimized"
    /\ optimizeCalls = 1
    /\ \E out \in {translateToSQL(nodes, config, rnd)} :
          /\ sqlOut' = out
          /\ error' = out.err
          /\ pc' = IF out.err = "" THEN "translated" ELSE "failed"
    /\ UNCHANGED <<request, userQuery, nodes, nodeTypesCounter, parameters, risky,
                   optimizeCalls, nodesBefore, stages, secondRun, execOrder, calls, instances,
                   config>>

\* buildQuery(req) once more, on a UserQuery equal to the one received, after
\* a compilation that went as buildQuery goes: new, optimize(), translateToSQL
BuildQueryAgain(rnd) ==
    /\ pc = "translated"
    /\ ~risky
    /\ \E again \in {buildQuery(DEFAULT_CONFIG, request, rnd)} :
          secondRun' = [out |-> again.out, parameters |-> again.parameters]
    /\ pc' = "compiledTwice"
    /\ UNCHANGED <<request, userQuery, nodes, nodeTypesCounter, parameters, error, risky,
                   optimizeCalls, nodesBefore, stages, sqlOut, execOrder, calls, instances,
                   config>>

Next ==
    \/ Construct
    \/ \E r \in BOOLEAN : Optimize(r)
    \/ \E rnd \in 1..MaxSeed : Translate(rnd)
    \/ \E rnd \in 1..MaxSeed : BuildQueryAgain(rnd)

Spec == Init /\ [][Next]_vars

(***************************************************************************)
(* getExecutionOrder() on graphs built by hand: new ComputeGraph(undefined), *)
(* graph.addNode(...) with inputs of the caller's choice, getExecutionOrder. *)
(***************************************************************************)
\* the ids given to addNode, in the order of the calls
HandIds == <<<<"projection", 1>>, <<"source", 1>>, <<"filter", 1>>>>

\* an id that is never added
MissingId == <<"expression", 9>>

\* the lists of at most n ids, without repetition
IdLists(ids, n) ==
    {l \in UNION {[1..k -> ids] : k \in 0..n} :
        \A i, j \in 1..Len(l) : i # j => l[i] # l[j]}

HandInputs == IdLists(Range(HandIds) \cup {MissingId}, MaxInputs)

InitOrder ==
    /\ request = UserQueryOf(SectorIsTech, <<>>, <<>>, 0)
    /\ userQuery = request
    /\ nodes = <<>>
    /\ nodeTypesCounter = nodeTypesCounterInit
    /\ parameters = <<>>
    /\ pc = "graph"
    /\ error = ""
    /\ risky = FALSE
    /\ optimizeCalls = 0
    /\ nodesBefore = <<>>
    /\ stages = NoStages
    /\ sqlOut = NoOutput
    /\ secondRun = NoRun
    /\ execOrder = NoOrder
    /\ calls = <<>>
    /\ instances = <<>>
    /\ config = DEFAULT_CONFIG

\* graph.addNode({id, type, inputs})
AddNode(inputs) ==
    /\ pc = "graph"
    /\ Len(nodes) < Len(HandIds)
    /\ \E id \in {HandIds[Len(nodes) + 1]} :
          nodes' = addNode(nodes, [BlankNode EXCEPT !.id = id, !.type = id[1],
                                                   !.inputs = inputs])
    /\ UNCHANGED <<request, userQuery, nodeTypesCounter, parameters, pc, error, risky,
                   optimizeCalls, nodesBefore, stages, sqlOut, secondRun, execOrder,
                   calls, instances,
                   config>>

\* graph.getExecutionOrder()
GetExecutionOrder ==
    /\ pc = "graph"
    /\ \E order \in {getExecutionOrder(nodes)} :
          /\ execOrder' = order
          /\ error' = order.err
    /\ pc' = "ordered"
    /\ UNCHANGED <<request, userQuery, nodes, nodeTypesCounter, parameters, risky,
                   optimizeCalls, nodesBefore, stages, sqlOut, secondRun, calls, instances,
                   config>>

\* graph.removeNode(id), once the nodes are all added
RemoveNode(id) ==
    /\ pc = "graph"
    /\ Len(nodes) = Len(HandIds)
    /\ nodes' = removeNode(nodes, id)
    /\ nodesBefore' = nodes
    /\ calls' = <<[removed |-> id]>>
    /\ pc' = "removed"
    /\ UNCHANGED <<request, userQuery, nodeTypesCounter, parameters, error, risky,
                   optimizeCalls, stages, sqlOut, secondRun, execOrder, instances,
                   config>>

NextOrder ==
    \/ \E inputs \in HandInputs : AddNode(inputs)
    \/ GetExecutionOrder
    \/ \E id \in Range(HandIds) \cup {MissingId} : RemoveNode(id)

SpecOrder == InitOrder /\ [][NextOrder]_vars

(***************************************************************************)
(* The request schema (src/unnamed/part_003): the aggregation names that   *)
(* userQuerySchema accepts                                                 *)
(***************************************************************************)
aggregationTypeSchema ==
    {"first", "last", "min", "max", "median", "percentile", "avg", "sum", "stddev",
     "count", "variance", "diff", "diff_pct", "ema"}

(***************************************************************************)
(* createParameter(), processFilter() and optimize() called by hand, in    *)
(* any order, on one graph made by new ComputeGraph(undefined)             *)
(***************************************************************************)
MaxCalls == 2          \* calls on one graph that reach createParameter()

ParameterValues ==
    {NumV(100), BoolV(TRUE), BoolV(FALSE), StrV("Tech"), ArrV(<<>>),
     ArrV(<<StrV("Tech"), StrV("Energy")>>), ArrV(<<NumV(1), NumV(2)>>),
     ArrV(<<BoolV(TRUE)>>), ArrV(<<StrV("Tech"), NumV(1)>>)}

\* the arguments (value, op) of the createParameter() calls
ParameterCalls ==
    {<<v, <<>>>> : v \in ParameterValues}
        \cup {<<StrV("Tech"), <<"LIKE">>>>, <<StrV("Tech"), <<"contains">>>>,
              <<NumV(100), <<"LIKE">>>>}

\* the filters given to processFilter()
HandFilters == {SectorIsTech, TickerIsAapl, SimpleFilter(Close, "gt", Hundred)}

\* the string createParameter() returned to processExpression(): the value of
\* the constant of the parameter node the call added
NewParameterOut(before, after) ==
    With([new \in {SelectSeq(after, LAMBDA n :
                       n.metadata.isParameter /\ ~HasNode(before, n.id))} |->
        IF new = <<>> THEN "" ELSE new[1].expression[1].value.str])

InitParams ==
    /\ request = UserQueryOf(SectorIsTech, <<>>, <<>>, 0)
    /\ userQuery = request
    /\ nodes = <<>>
    /\ nodeTypesCounter = nodeTypesCounterInit
    /\ parameters = <<>>
    /\ pc = "constructed"
    /\ error = ""
    /\ risky = FALSE
    /\ optimizeCalls = 0
    /\ nodesBefore = <<>>
    /\ stages = NoStages
    /\ sqlOut = NoOutput
    /\ secondRun = NoRun
    /\ execOrder = NoOrder
    /\ calls = <<>>
    /\ instances = <<>>
    /\ config = DEFAULT_CONFIG

\* graph.createParameter(value, op)
CreateParameter(value, op) ==
    /\ pc \in {"constructed", "optimized"}
    /\ Len(calls) < MaxCalls
    /\ \E p \in {createParameter(parameters, value, op)} :
          /\ parameters' = p.parameters
          /\ error' = p.err
          /\ calls' = Append(calls, [value |-> value, op |-> op, out |-> p.out,
                                     err |-> p.err, before |-> parameters,
                                     after |-> p.parameters])
    /\ UNCHANGED <<request, userQuery, nodes, nodeTypesCounter, pc, risky,
                   optimizeCalls, nodesBefore, stages, sqlOut, secondRun, execOrder, instances,
                   config>>

\* graph.processFilter(f), which reaches createParameter(f.value.value)
ProcessFilter(f) ==
    /\ pc \in {"constructed", "optimized"}
    /\ Len(calls) < MaxCalls
    /\ \E made \in {processFilter(Graph, config, f, <<>>)} :
          /\ nodes' = made.g.nodes
          /\ nodeTypesCounter' = made.g.counter
          /\ parameters' = made.g.parameters
          /\ error' = made.g.err
          /\ calls' = Append(calls, [value |-> f.value.value, op |-> <<>>,
                                     out |-> NewParameterOut(nodes, made.g.nodes),
                                     err |-> made.g.err, before |-> parameters,
                                     after |-> made.g.parameters])
    /\ UNCHANGED <<request, userQuery, pc, risky, optimizeCalls, nodesBefore, stages,
                   sqlOut, secondRun, execOrder, instances,
                   config>>

NextParams ==
    \/ \E c \in ParameterCalls : CreateParameter(c[1], c[2])
    \/ \E f \in HandFilters : ProcessFilter(f)
    \/ \E r \in BOOLEAN : Optimize(r)

SpecParams == InitParams /\ [][NextParams]_vars

(***************************************************************************)
(* Two ComputeGraph objects alive at once, each compiling its own request. *)
(* A method runs to completion, so what interleaves is the steps a compile *)
(* is made of: the lowering of the filter (processFilter), the rest of the *)
(* constructor (inferJoins, ensureRequiredColumns) and each optimize(r).   *)
(* The fields of compute-graph.ts 64-78 are instance fields; the config is *)
(* the one value both objects hold, and no method writes it.               *)
(***************************************************************************)
\* the requests of the two calls
PairQueries ==
    {UserQueryOf(SectorIsTech, <<>>, <<>>, 0),
     UserQueryOf(CompositeFilter("and", <<TickerIsAapl, AvgAbove>>), <<>>, <<>>, 0),
     UserQueryOf(CompositeFilter("and", <<AvgAbove, AvgBelow>>), <<>>, <<>>, 0)}

\* a ComputeGraph object before its constructor body ran; flags are the
\* arguments of the optimize() calls made on it, resumed tells that the object
\* took a step after the other object had taken one in between
NewInstance(q) ==
    [request |-> q, userQuery |-> q, nodes |-> <<>>, counter |-> nodeTypesCounterInit,
     parameters |-> <<>>, pc |-> "new", err |-> "", flags |-> <<>>,
     isLast |-> FALSE, resumed |-> FALSE]

\* `this` in a method called on object i: the fields of that object
StaticCounterGraph(gs, i) ==
    [nodes |-> gs[i].nodes, counter |-> gs[1].counter,
     parameters |-> gs[i].parameters, err |-> ""]

ThisGraph(gs, i) ==
    [nodes |-> gs[i].nodes, counter |-> gs[i].counter,
     parameters |-> gs[i].parameters, err |-> ""]

\* object i after a step that left it the graph g at position pos
Stepped(gs, i, g, pos) ==
    [k \in DOMAIN gs |->
        IF k = i
        THEN [gs[i] EXCEPT !.nodes = g.nodes, !.counter = g.counter,
                           !.parameters = g.parameters, !.err = g.err,
                           !.pc = IF g.err = "" THEN pos ELSE "failed",
                           !.isLast = TRUE,
                           !.resumed = @ \/ (gs[i].pc # "new" /\ ~gs[i].isLast)]
        ELSE [gs[k] EXCEPT !.isLast = FALSE]]

InitPair ==
    /\ request = UserQueryOf(SectorIsTech, <<>>, <<>>, 0)
    /\ userQuery = request
    /\ nodes = <<>>
    /\ nodeTypesCounter = nodeTypesCounterInit
    /\ parameters = <<>>
    /\ pc = "pair"
    /\ error = ""
    /\ risky = FALSE
    /\ optimizeCalls = 0
    /\ nodesBefore = <<>>
    /\ stages = NoStages
    /\ sqlOut = NoOutput
    /\ secondRun = NoRun
    /\ execOrder = NoOrder
    /\ calls = <<>>
    /\ instances \in [1..2 -> {NewInstance(q) : q \in PairQueries}]
    /\ config = DEFAULT_CONFIG

PairFrame ==
    UNCHANGED <<request, userQuery, nodes, nodeTypesCounter, parameters, pc, error,
                risky, optimizeCalls, nodesBefore, stages, sqlOut, secondRun,
                execOrder, calls,
                   config>>

\* this.processFilter(this.userQuery.filter) of object i
LowerOn(i) ==
    /\ instances[i].pc = "new"
    /\ \E f \in {processFilter(ThisGraph(instances, i), DEFAULT_CONFIG,
                               instances[i].userQuery.filter, <<>>)} :
          instances' = [Stepped(instances, i, f.g, "lowered") EXCEPT
                           ![i].userQuery.filter = f.x]
    /\ PairFrame

\* this.inferJoins(); this.ensureRequiredColumns() of object i
InferJoinsOn(i) ==
    /\ instances[i].pc = "lowered"
    /\ \E g \in {ensureRequiredColumns(
                     inferJoins(ThisGraph(instances, i), DEFAULT_CONFIG),
                     DEFAULT_CONFIG)} :
          instances' = Stepped(instances, i, g, "constructed")
    /\ PairFrame

\* optimize(r) on object i
OptimizeOn(i, r) ==
    /\ instances[i].pc \in {"constructed", "optimized"}
    /\ Len(instances[i].flags) < MaxOptimizeCalls
    /\ \E g \in {optimize(ThisGraph(instances, i), DEFAULT_CONFIG, r)} :
          instances' = [Stepped(instances, i, g, "optimized") EXCEPT
                           ![i].flags = Append(@, r)]
    /\ PairFrame

NextPair ==
    \/ \E i \in 1..2 : LowerOn(i)
    \/ \E i \in 1..2 : InferJoinsOn(i)
    \/ \E i \in 1..2, r \in BOOLEAN : OptimizeOn(i, r)

SpecPair == InitPair /\ [][NextPair]_vars


(***************************************************************************)
(* Compilations under a config of the caller: new ComputeGraph(q, config), *)
(* then optimize(r).  The configs differ from the default one in a field.  *)
(***************************************************************************)
\* tickers, too, has a column that is always included
KeyedConfig ==
    [DEFAULT_CONFIG EXCEPT !.tables["tickers"].alwaysIncludeColumns = <<"ticker">>]

\* the two tables have no primary key in common
SplitConfig ==
    [DEFAULT_CONFIG EXCEPT !.tables["tickers"].primaryKeys = <<"symbol">>]

Configs == {DEFAULT_CONFIG, KeyedConfig, SplitConfig}

ConfigFilters ==
    {SectorIsTech, TickerIsAapl, AvgAbove, SimpleFilter(Close, "gt", Hundred),
     CompositeFilter("and", <<TickerIsAapl, AvgAbove>>),
     CompositeFilter("and", <<TickerIsAapl, SimpleFilter(Close, "gt", Hundred)>>),
     CompositeFilter("or", <<SectorIsTech, TickerIsAapl>>),
     CompositeFilter("and",
        <<SectorIsTech, CompositeFilter("or", <<AvgAbove, ReturnAbove>>)>>)}

ConfigQueries ==
    {UserQueryOf(f, g, <<>>, 0) :
        f \in ConfigFilters, g \in {<<>>, <<GroupDim("sector")>>}}
    \cup {UserQueryOf(AvgAbove, <<>>, <<SortCrit(Close, "asc")>>, 0),
          UserQueryOf(TickerIsAapl, <<>>, <<SortCrit(Return30, "desc")>>, 10)}

\* the alias replaceNodeID is given, if any
Aliases == {<<>>, <<"renamed">>}

InitConfig ==
    /\ request \in ConfigQueries
    /\ userQuery = request
    /\ nodes = <<>>
    /\ nodeTypesCounter = nodeTypesCounterInit
    /\ parameters = <<>>
    /\ pc = "new"
    /\ error = ""
    /\ risky = FALSE
    /\ optimizeCalls = 0
    /\ nodesBefore = <<>>
    /\ stages = NoStages
    /\ sqlOut = NoOutput
    /\ secondRun = NoRun
    /\ execOrder = NoOrder
    /\ calls = <<>>
    /\ instances = <<>>
    /\ config \in Configs

\* graph.replaceNodeID(oldId, newId, oldAlias) on the constructed graph
ReplaceNodeID(oldId, newId, oldAlias) ==
    /\ pc = "constructed"
    /\ HasNode(nodes, oldId)
    /\ HasNode(nodes, newId)
    /\ oldId # newId
    /\ nodes' = replaceNodeID(nodes, oldId, newId, oldAlias)
    /\ nodesBefore' = nodes
    /\ calls' = <<[oldId |-> oldId, newId |-> newId, oldAlias |-> oldAlias]>>
    /\ pc' = "replaced"
    /\ UNCHANGED <<request, userQuery, nodeTypesCounter, parameters, error, risky,
                   optimizeCalls, stages, sqlOut, secondRun, execOrder, instances,
                   config>>

NextConfig ==
    \/ Construct
    \/ \E r \in BOOLEAN : Optimize(r)
    \/ \E oldId, newId \in Range(NodeIds(nodes)), oldAlias \in Aliases :
          ReplaceNodeID(oldId, newId, oldAlias)

SpecConfig == InitConfig /\ [][NextConfig]_vars


(***************************************************************************)
(* Claims                                                                  *)
(***************************************************************************)
\* the node ids a graph refers to: inputs, the input of a condition side, the
\* sourceNode of a projection column, the node of a sort criterion
ReferencedIds(ns) ==
    UNION {Range(ns[i].inputs)
           \cup {ns[i].condition[c].left.input :
                    c \in {c \in 1..Len(ns[i].condition) :
                              ns[i].condition[c].left.kind = "input"}}
           \cup {ns[i].condition[c].right.input :
                    c \in {c \in 1..Len(ns[i].condition) :
                              ns[i].condition[c].right.kind = "input"}}
           \cup UNION {Range(ns[i].columns[c].sourceNode) :
                          c \in 1..Len(ns[i].columns)}
           \cup {ns[i].criteria[c].expression.node :
                    c \in {c \in 1..Len(ns[i].criteria) :
                              ns[i].criteria[c].expression.kind = "node"}}
           : i \in 1..Len(ns)}

AllReferencesExist(ns) == ReferencedIds(ns) \subseteq Range(NodeIds(ns))

\* C1: after construction, after join inference and after optimize(), risky or
\* not, every node id a node refers to (in inputs, in a side of a filter
\* condition, as the sourceNode of a projection column, as the node of a sort
\* criterion that was not inlined to a literal) is the id of a node of the graph
C1_ReferencesExist ==
    pc \in {"constructed", "optimized"} =>
        AllReferencesExist(nodes) /\ AllReferencesExist(stages.joined)

\* every id in a node's inputs is the id of a node of the graph
InputsExist(ns) ==
    \A i \in 1..Len(ns) : Range(ns[i].inputs) \subseteq Range(NodeIds(ns))

\* the pairs <<input, node>> of the inputs relation, over existing nodes
InputEdges(ns) ==
    {e \in Range(NodeIds(ns)) \X Range(NodeIds(ns)) :
        Includes(NodeOf(ns, e[2]).inputs, e[1])}

\* a ranking of the nodes under which every input ranks below its node exists
\* exactly when the inputs relation has no cycle
Acyclic(ns) ==
    \E rank \in [Range(NodeIds(ns)) -> 1..Len(ns)] :
        \A e \in InputEdges(ns) : rank[e[1]] < rank[e[2]]

\* the place of an id in an execution order
PlaceIn(ordered, id) == CHOOSE k \in 1..Len(ordered) : ordered[k] = id

\* C2: for every acyclic graph in which every input id exists,
\* getExecutionOrder() returns each node of the graph exactly once and every
\* node after all of its inputs
C2_TopologicalOrder ==
    (pc = "ordered" /\ InputsExist(nodes) /\ Acyclic(nodes)) =>
        /\ execOrder.err = ""
        /\ Len(execOrder.ordered) = Len(nodes)
        /\ Range(execOrder.ordered) = Range(NodeIds(nodes))
        /\ \A e \in InputEdges(nodes) :
              PlaceIn(execOrder.ordered, e[1]) < PlaceIn(execOrder.ordered, e[2])

\* an acyclic graph of three nodes whose first-added node has two inputs added
\* after it, one of them an input of the other, has been ordered
C2_Witness ==
    /\ pc = "ordered"
    /\ InputsExist(nodes)
    /\ Acyclic(nodes)
    /\ Len(nodes) = 3
    /\ Len(nodes[1].inputs) = 2
    /\ nodes[3].inputs = <<nodes[2].id>>
    /\ execOrder.ordered = <<nodes[2].id, nodes[3].id, nodes[1].id>>

\* C3 as stated: getExecutionOrder() fails with the cycle error whenever the
\* inputs relation over the existing nodes has a cycle (a self-loop included),
\* and never on an acyclic graph
C3_CycleDetectedIffCycle ==
    pc = "ordered" => (execOrder.err = "CycleDetected" <=> ~Acyclic(nodes))

\* C3, amended: on a graph in which every input id exists, getExecutionOrder()
\* fails with the cycle error exactly when the inputs relation has a cycle (a
\* self-loop included); on any graph, it fails with the cycle error only when
\* the inputs relation has a cycle
C3_CycleDetectedIffCycleWhenInputsExist ==
    pc = "ordered" =>
        /\ execOrder.err = "CycleDetected" => ~Acyclic(nodes)
        /\ InputsExist(nodes) => (execOrder.err = "CycleDetected" <=> ~Acyclic(nodes))

\* a graph whose inputs all exist and that has a self-loop, and one with a
\* cycle through two nodes, fail with the cycle error
C3_Witness ==
    /\ pc = "ordered"
    /\ InputsExist(nodes)
    /\ execOrder.err = "CycleDetected"
    /\ Len(nodes) = 3
    /\ \/ nodes[1].inputs = <<nodes[1].id>>
       \/ nodes[1].inputs = <<nodes[3].id>> /\ nodes[3].inputs = <<nodes[1].id>>

\* C4: two buildQuery() calls on equal UserQuery values yield identical SQL
\* text and identical parameter maps
C4_BuildQueryDeterministic ==
    pc = "compiledTwice" =>
        /\ secondRun.out = sqlOut
        /\ secondRun.parameters = parameters

\* what C5 compares of a node: its id, inputs, condition and criteria
Shape(n) ==
    [id |-> n.id, inputs |-> n.inputs, condition |-> n.condition,
     criteria |-> n.criteria]

ShapeOf(ns) == {Shape(ns[i]) : i \in 1..Len(ns)}

\* C5: optimize() called twice in a row on a graph built from a UserQuery
\* yields the same graph (the same node ids, and for each node the same
\* inputs, condition and criteria) as optimize() called once
C5_OptimizeIdempotent ==
    (pc = "optimized" /\ optimizeCalls = 2 /\ ~risky) =>
        ShapeOf(nodes) = ShapeOf(nodesBefore)

\* C6: for every graph built from a UserQuery by the constructor,
\* optimize(risky), for either value of risky, leaves at most as many nodes as
\* there were before the call
C6_OptimizeNeverGrows ==
    pc = "optimized" => Len(nodes) <= Len(nodesBefore)

\* an optimize() call has added nodes that the graph did not have before and
\* has removed nodes of the graph
C6_Witness ==
    /\ pc = "optimized"
    /\ \E i \in 1..Len(nodes) : ~HasNode(nodesBefore, nodes[i].id)
    /\ \E i \in 1..Len(nodesBefore) : ~HasNode(nodes, nodesBefore[i].id)

\* an expression node that holds an aggregate or a math expression
IsComputed(n) ==
    /\ n.type = "expression"
    /\ n.expression # <<>>
    /\ n.expression[1].type \in {"aggregate", "math"}

\* the columns of the projection nodes among the inputs of a node
ColumnsUnder(ns, n) ==
    UNION {{NodeOf(ns, id).columns[c].name : c \in 1..Len(NodeOf(ns, id).columns)} :
              id \in {x \in Range(n.inputs) :
                         HasNode(ns, x) /\ NodeOf(ns, x).type = "projection"}}

\* two nodes of structurally equal expressions over projections of the same
\* columns
EqualCopies(ns, a, b) ==
    /\ a.id # b.id
    /\ IsComputed(a)
    /\ IsComputed(b)
    /\ a.expression = b.expression
    /\ ColumnsUnder(ns, a) = ColumnsUnder(ns, b)

\* the node ids that the condition or the criteria of a node refer to
UsedIds(n) == ReferencedIds(<<[n EXCEPT !.inputs = <<>>, !.columns = <<>>]>>)

\* node f of `after` refers to node s, in its inputs and in its condition or
\* criteria, and no longer to node e
RefersInstead(after, f, s, e) ==
    /\ HasNode(after, f.id)
    /\ HasNode(after, s.id)
    /\ Includes(NodeOf(after, f.id).inputs, s.id)
    /\ s.id \in UsedIds(NodeOf(after, f.id))
    /\ e.id \notin ReferencedIds(<<NodeOf(after, f.id)>>)

\* the filter and sort nodes that use node e
UsersOf(ns, e) ==
    {f \in Range(ns) : f.type \in {"filter", "sort"} /\ Includes(f.inputs, e.id)}

SingleChain(ns, n) ==
    /\ Len(n.inputs) = 1
    /\ HasNode(ns, n.inputs[1])
    /\ NodeOf(ns, n.inputs[1]).type = "projection"
    /\ Len(findDependentNodes(ns, n.id)) = 1

TerminalFlagsExact(ns) ==
    \A i \in 1..Len(ns) :
        ns[i].isTerminal <=> ~(\E j \in 1..Len(ns) : Includes(ns[j].inputs, ns[i].id))

\* C8: after each pipeline stage (graph construction, join inference,
\* optimize) a node's isTerminal flag is true exactly when no node of the
\* graph lists that node in its inputs
C8_TerminalFlagsExact ==
    pc \in {"constructed", "optimized"} =>
        /\ TerminalFlagsExact(stages.joined)
        /\ TerminalFlagsExact(nodes)

JoinIdsOf(ns) == {n.id : n \in {m \in Range(ns) : m.type = "join"}}

SourceIdsOf(ns) == {n.id : n \in {m \in Range(ns) : m.type = "source"}}

\* node n of the graph before join inference, as it is in ns under the same
\* id, refers to the join node j wherever n referred to a source node: in its
\* inputs, in the inputs of its condition sides, in the sourceNode of its columns
RefersToJoin(before, n, ns, j) ==
    With([m \in {NodeOf(ns, n.id)} |->
    /\ ReferencedIds(<<m>>) \cap SourceIdsOf(before) = {}
    /\ (Range(n.inputs) \cap SourceIdsOf(before) # {}) => Includes(m.inputs, j)
    /\ \A c \in 1..Len(n.condition) :
          /\ (n.condition[c].left.kind = "input"
                /\ n.condition[c].left.input \in SourceIdsOf(before)) =>
                 (c <= Len(m.condition) /\ m.condition[c].left.input = j)
          /\ (n.condition[c].right.kind = "input"
                /\ n.condition[c].right.input \in SourceIdsOf(before)) =>
                 (c <= Len(m.condition) /\ m.condition[c].right.input = j)
    /\ \A c \in 1..Len(n.columns) :
          (Range(n.columns[c].sourceNode) \cap SourceIdsOf(before) # {}) =>
              (c <= Len(m.columns) /\ m.columns[c].sourceNode = <<j>>)])

\* the law of C9 for a graph ns that came from the graph `before` join inference
JoinLaw(before, ns) ==
    /\ Cardinality(JoinIdsOf(ns)) <= 1
    /\ Cardinality(SourceIdsOf(before)) <= 1 => JoinIdsOf(ns) = {}
    /\ \A j \in JoinIdsOf(ns) :
          \A n \in Range(before) :
              (n.type \in {"projection", "filter", "expression"} /\ HasNode(ns, n.id)) =>
                  RefersToJoin(before, n, ns, j)

\* C9: after every pipeline stage the graph has at most one join node, none
\* when the query references a single table, and if it has one, every
\* projection, filter or expression node that referenced a source node before
\* join inference references the join node instead of the source, in its
\* inputs, its filter condition inputs and its projection sourceNode
C9_SingleJoinRewired ==
    pc \in {"constructed", "optimized"} =>
        /\ JoinLaw(stages.lowered, stages.joined)
        /\ JoinLaw(stages.lowered, nodes)

\* a graph over two tables has been optimized and has its join node, and a
\* projection that named a source before join inference, in its inputs and
\* as the sourceNode of a column, is still in the graph
C9_Witness ==
    /\ pc = "optimized"
    /\ Cardinality(SourceIdsOf(stages.lowered)) = 2
    /\ Cardinality(JoinIdsOf(nodes)) = 1
    /\ \E n \in Range(stages.lowered) :
          /\ n.type = "projection"
          /\ HasNode(nodes, n.id)
          /\ Range(n.inputs) \cap SourceIdsOf(stages.lowered) # {}
          /\ Range(n.columns[1].sourceNode) \cap SourceIdsOf(stages.lowered) # {}

(***************************************************************************)
(* C10: WHERE / QUALIFY placement of filters on window aliases             *)
(***************************************************************************)
\* the side of a condition refers to an aggregate node that has a time_range
IsWindowSide(ns, side) ==
    /\ side.kind = "input"
    /\ HasNode(ns, side.input)
    /\ HasTimeRange(NodeOf(ns, side.input))

\* the side is written without a random name: a parameter, or a node that has
\* an alias or an expression to derive one from
IsNamedSide(ns, side) ==
    \/ side.kind # "input"
    \/ /\ HasNode(ns, side.input)
       /\ \/ NodeOf(ns, side.input).alias # NoAlias
          \/ NodeOf(ns, side.input).expression # <<>>

SideText(ns, side) ==
    IF side.kind # "input" THEN side.parameter
    ELSE IF NodeOf(ns, side.input).alias # NoAlias THEN NodeOf(ns, side.input).alias
    ELSE generateAlias(NodeOf(ns, side.input).expression[1])

PredicateText(ns, f) ==
    SideText(ns, f.condition[1].left) \o " "
        \o mapFilterOperatorToSQL(f.condition[1].op) \o " "
        \o SideText(ns, f.condition[1].right)

\* the simple filters of the graph, outside any composite, one of whose sides
\* is a window alias
WindowFilters(ns) ==
    {i \in 1..Len(ns) :
        /\ ns[i].type = "filter"
        /\ ns[i].condition # <<>>
        /\ IsNamedSide(ns, ns[i].condition[1].left)
        /\ IsNamedSide(ns, ns[i].condition[1].right)
        /\ \/ IsWindowSide(ns, ns[i].condition[1].left)
           \/ IsWindowSide(ns, ns[i].condition[1].right)
        /\ \A j \in 1..Len(ns) :
              ns[j].type = "composite-filter" => ~Includes(ns[j].inputs, ns[i].id)}

WherePredicates(out) ==
    Range(out.filters) \cup UNION {Range(out.ctes[i].where) : i \in 1..Len(out.ctes)}

QualifyPredicates(out) ==
    Range(out.qualify) \cup UNION {Range(out.ctes[i].qualify) : i \in 1..Len(out.ctes)}

\* C10: in the SQL of a compiled query, the predicate of every simple filter
\* one of whose sides references an aggregate with a time_range is in a
\* QUALIFY clause (of a CTE body or of the main query) and in no WHERE clause.
C10_WindowFiltersInQualify ==
    pc = "translated" =>
        \A i \in WindowFilters(nodes) :
            /\ PredicateText(nodes, nodes[i]) \in QualifyPredicates(sqlOut)
            /\ PredicateText(nodes, nodes[i]) \notin WherePredicates(sqlOut)

(***************************************************************************)
(* C11: the overall LIMIT of the main query                                *)
(***************************************************************************)
\* C11: the main query of the SQL compiled from a UserQuery with limit n
\* ends with the clause LIMIT n, whatever group_by holds (a top-N criterion
\* contributes a LIMIT k BY dimension clause of its own).
C11_OverallLimitEmitted ==
    (pc = "translated" /\ request.limit # 0) =>
        sqlOut.limitSql = "LIMIT " \o ToString(request.limit)

(***************************************************************************)
(* C12: the parameter stored for contains / ncontains                      *)
(***************************************************************************)
\* the request is a simple filter with op contains or ncontains whose value
\* is a string constant
IsContainsRequest ==
    /\ request.filter.type = "simple"
    /\ request.filter.op \in {"contains", "ncontains"}
    /\ request.filter.value.type = "constant"
    /\ request.filter.value.value.vt = "string"

\* C12: once the graph of a simple filter with op contains or ncontains and a
\* string constant value is built, the parameter table holds for that
\* constant the string wrapped as %value%.
C12_ContainsValueWrapped ==
    (pc \in {"constructed", "optimized", "translated"} /\ IsContainsRequest) =>
        \E i \in 1..Len(parameters) :
            parameters[i] = StrV("%" \o request.filter.value.value.str \o "%")

(***************************************************************************)
(* C13: the names of the parameter table                                   *)
(***************************************************************************)
\* the call stored a value: the table it left is not the table it found
Stored(c) == c.after # c.before

\* the number of calls among the first i that stored a value
StoredUpTo(i) == Cardinality({j \in 1..i : Stored(calls[j])})

\* C13: on a graph driven by createParameter(), processFilter() and
\* optimize() calls in any order, the names of the parameter table are
\* param_1 to param_n, n being the number of calls so far that stored a value;
\* the k-th call that stored a value added the name param_k and changed no
\* other entry, and the table still holds under param_k what that call wrote.
C13_ParameterNamesInCallOrder ==
    /\ DOMAIN parameters = 1..StoredUpTo(Len(calls))
    /\ \A i \in 1..Len(calls) :
          Stored(calls[i]) =>
              /\ DOMAIN calls[i].after = DOMAIN calls[i].before \cup {StoredUpTo(i)}
              /\ StoredUpTo(i) \notin DOMAIN calls[i].before
              /\ \A k \in DOMAIN calls[i].before :
                    calls[i].after[k] = calls[i].before[k]
              /\ parameters[StoredUpTo(i)] = calls[i].after[StoredUpTo(i)]

\* two calls stored a value, one directly and one through processFilter(),
\* with an optimize() call that inlined a parameter node between them
C13_Witness ==
    /\ Len(calls) = 2
    /\ StoredUpTo(1) = 1
    /\ StoredUpTo(2) = 2
    /\ optimizeCalls >= 1
    /\ calls[1].after = calls[2].before
    /\ \E i \in 1..Len(nodes) : nodes[i].metadata.hasParameter

(***************************************************************************)
(* C14: what createParameter returns and stores, by the type of the value  *)
(***************************************************************************)
\* the call added no entry and returned the given text
Inlined(c, text) == c.err = "" /\ c.after = c.before /\ c.out = text

\* the call added exactly one entry and returned its placeholder of the given type
StoredAs(c, type) ==
    /\ c.err = ""
    /\ \E i \in DOMAIN c.after \ DOMAIN c.before :
          /\ DOMAIN c.after = DOMAIN c.before \cup {i}
          /\ c.out = "{param_" \o ToString(i) \o ": " \o type \o "}"
    /\ \A k \in DOMAIN c.before : c.after[k] = c.before[k]

ElementTypes(v) == {v.elems[i].vt : i \in 1..Len(v.elems)}

CallAsSpecified(c) ==
    CASE c.value.vt = "number" -> Inlined(c, ToString(c.value.num))
      [] c.value.vt = "boolean" -> Inlined(c, IF c.value.bool THEN "1" ELSE "0")
      [] c.value.vt = "string" -> StoredAs(c, "String")
      [] c.value.vt = "array" /\ c.value.elems = <<>> -> Inlined(c, "[]")
      [] c.value.vt = "array" /\ ElementTypes(c.value) = {"string"} ->
            StoredAs(c, "Array(String)")
      [] c.value.vt = "array" /\ ElementTypes(c.value) = {"number"} ->
            StoredAs(c, "Array(Float64)")
      [] c.value.vt = "array" /\ ElementTypes(c.value) = {"boolean"} ->
            StoredAs(c, "Array(Boolean)")
      [] OTHER -> c.err # "" /\ c.after = c.before

\* C14: every createParameter call inlines a number as its decimal string, a
\* boolean as 1 or 0 and an empty array as [] without adding an entry; for a
\* string or a non-empty array of elements of one type it adds exactly one
\* entry and returns {param_i: Type} with Type String, Array(String),
\* Array(Float64) or Array(Boolean); for an array of mixed types it fails and
\* adds no entry.
C14_CreateParameterByType ==
    \A i \in 1..Len(calls) : CallAsSpecified(calls[i])

\* a call that inlined its value, after a call on a mixed array that failed
C14_Witness ==
    /\ Len(calls) = 2
    /\ ElementTypes(calls[1].value) = {"string", "number"}
    /\ calls[1].err # ""
    /\ calls[2].value.vt = "boolean"
    /\ calls[2].out = "0"

(***************************************************************************)
(* C15: aggregations the schema accepts and the emitter translates         *)
(***************************************************************************)
RECURSIVE ExprAggregations(_)
RECURSIVE FilterAggregations(_)

\* the aggregation names that occur in an expression
ExprAggregations(e) ==
    (IF e.type = "aggregate" THEN {e.aggregation} ELSE {})
        \cup UNION {ExprAggregations(e.target[i]) : i \in 1..Len(e.target)}
        \cup UNION {ExprAggregations(e.operands[i]) : i \in 1..Len(e.operands)}
        \cup UNION {FilterAggregations(e.filter[i]) : i \in 1..Len(e.filter)}

\* the aggregation names that occur in a filter
FilterAggregations(f) ==
    IF f.type = "simple"
    THEN ExprAggregations(f.target) \cup ExprAggregations(f.value)
    ELSE UNION {FilterAggregations(f.filters[i]) : i \in 1..Len(f.filters)}

RequestAggregations ==
    FilterAggregations(request.filter)
        \cup UNION {ExprAggregations(request.sort_by[i].expression) :
                      i \in 1..Len(request.sort_by)}
        \cup UNION {UNION {ExprAggregations(request.group_by[i].expression[j]) :
                             j \in 1..Len(request.group_by[i].expression)} :
                      i \in 1..Len(request.group_by)}

\* C15: the compilation of a UserQuery all of whose aggregation names are
\* accepted by the schema never fails with the unsupported-aggregation error.
C15_SchemaAggregationsSupported ==
    RequestAggregations \subseteq aggregationTypeSchema =>
        error # "UnsupportedAggregation"

(***************************************************************************)
(* C16: required projections survive optimize()                            *)
(***************************************************************************)
\* the table a projection column is read from: the table of its sourceNode
TableOfColumn(ns, col) ==
    IF col.sourceNode # <<>> /\ HasNode(ns, col.sourceNode[1])
    THEN NodeOf(ns, col.sourceNode[1]).table ELSE ""

\* the (table, column) pairs projected by the required projections of a graph
RequiredPairs(ns) ==
    UNION {{<<TableOfColumn(ns, ns[i].columns[j]), ns[i].columns[j].name>> :
               j \in 1..Len(ns[i].columns)} :
           i \in {i \in 1..Len(ns) : /\ ns[i].type = "projection"
                                      /\ ns[i].metadata.isRequiredProjection}}

TablesOf(ns) == {ns[i].table : i \in {i \in 1..Len(ns) : ns[i].type = "source"}}

\* C16: every (table, column) pair that a required projection projects when
\* optimize(risky) is called, for a table whose source node is in the graph
\* the call leaves, is projected by a required projection of that graph.
C16_RequiredProjectionsKept ==
    pc = "optimized" =>
        \A pair \in RequiredPairs(nodesBefore) :
            pair[1] \in TablesOf(nodes) => pair \in RequiredPairs(nodes)

\* an optimize(true) call on a graph with required projections that removed a
\* projection and left the required ones
C16_Witness ==
    /\ pc = "optimized"
    /\ risky
    /\ RequiredPairs(nodesBefore) # {}
    /\ \E i \in 1..Len(nodesBefore) :
          nodesBefore[i].type = "projection" /\ ~HasNode(nodes, nodesBefore[i].id)
    /\ RequiredPairs(nodesBefore) \subseteq RequiredPairs(nodes)

(***************************************************************************)
(* C17: the join pruned by optimize(true)                                  *)
(***************************************************************************)
SourcesOfTable(ns, table) ==
    {i \in 1..Len(ns) : ns[i].type = "source" /\ ns[i].table = table}

\* the projections that read the given table: those whose inputs named its
\* source node before join inference or name it now
ProjectionsOff(ns, table) ==
    {i \in 1..Len(ns) :
        /\ ns[i].type = "projection"
        /\ \E s \in SourcesOfTable(ns, table) :
              \/ Includes(ns[i].inputs, ns[s].id)
              \/ /\ HasNode(stages.lowered, ns[i].id)
                 /\ Includes(NodeOf(stages.lowered, ns[i].id).inputs, ns[s].id)}

\* the side of a condition is on the ticker metric, or is a constant
TickerOrConstant(ns, side) ==
    \/ side.kind = "parameter"
    \/ side.metric = "ticker"
    \/ HasNode(ns, side.input) /\ NodeOf(ns, side.input).metadata.isParameter

\* the filters that consume a projection off the given table
FiltersOff(ns, table) ==
    {i \in 1..Len(ns) :
        /\ ns[i].type = "filter"
        /\ \E p \in ProjectionsOff(ns, table) : Includes(ns[i].inputs, ns[p].id)}

\* exactly the two sources tickers and daily_agg, every projection off tickers
\* projects only ticker, every filter on those projections is on ticker only
Prunable(ns) ==
    /\ Cardinality(SourcesOfTable(ns, "tickers")) = 1
    /\ Cardinality(SourcesOfTable(ns, "daily_agg")) = 1
    /\ Cardinality({i \in 1..Len(ns) : ns[i].type = "source"}) = 2
    /\ \A p \in ProjectionsOff(ns, "tickers") :
          \A j \in 1..Len(ns[p].columns) : ns[p].columns[j].name = "ticker"
    /\ \A f \in FiltersOff(ns, "tickers") :
          /\ ns[f].condition # <<>>
          /\ TickerOrConstant(ns, ns[f].condition[1].left)
          /\ TickerOrConstant(ns, ns[f].condition[1].right)

\* daily_agg is the only source, the projections off tickers are gone, and the
\* filters that read them read a ticker projection on daily_agg
Pruned(before, ns) ==
    /\ SourcesOfTable(ns, "tickers") = {}
    /\ Cardinality({i \in 1..Len(ns) : ns[i].type = "source"}) = 1
    /\ \A p \in ProjectionsOff(before, "tickers") : ~HasNode(ns, before[p].id)
    /\ \A f \in FiltersOff(before, "tickers") :
          /\ HasNode(ns, before[f].id)
          /\ \E p \in ProjectionsOff(ns, "daily_agg") :
                /\ ns[p].columns[1].name = "ticker"
                /\ Includes(NodeOf(ns, before[f].id).inputs, ns[p].id)

\* C17: optimize(true) on a graph with exactly the two sources tickers and
\* daily_agg, whose projections off tickers project only ticker and whose
\* filters on them are on ticker only, prunes the join.
C17_JoinPruned ==
    (pc = "optimized" /\ optimizeCalls = 1 /\ risky /\ Prunable(nodesBefore)) =>
        Pruned(nodesBefore, nodes)

\* the graph of a call that runs alone: the constructor, then optimize(r) for
\* each r of flags from the k-th on
RECURSIVE OptimizedAlone(_, _, _)
OptimizedAlone(g, flags, k) ==
    IF k > Len(flags) THEN g
    ELSE OptimizedAlone(optimize(g, DEFAULT_CONFIG, flags[k]), flags, k + 1)

CompiledAlone(q, flags) ==
    OptimizedAlone(processUserQuery(DEFAULT_CONFIG, q).g, flags, 1)

\* same node ids and nodes, same counters, same parameter names and values
SameGraph(c, g) ==
    /\ c.nodes = g.nodes
    /\ c.counter = g.counter
    /\ DOMAIN c.parameters = DOMAIN g.parameters
    /\ c.parameters = g.parameters
    /\ c.err = g.err

RemovedNode == NodeOf(nodesBefore, calls[1].removed)

\* a node of the graph after the removal lists the id among its inputs
ListedAfter(id) == \E i \in 1..Len(nodes) : Includes(nodes[i].inputs, id)

\* C19: removeNode(id) of a node of the graph deletes it, leaves each former
\* input that is still in the graph terminal exactly when no remaining node
\* lists that input, and leaves every other node as it was.
C19_RemoveNodeFrame ==
    (pc = "removed" /\ HasNode(nodesBefore, calls[1].removed)) =>
        /\ ~HasNode(nodes, calls[1].removed)
        /\ \A i \in 1..Len(nodes) :
              /\ HasNode(nodesBefore, nodes[i].id)
              /\ IF Includes(RemovedNode.inputs, nodes[i].id)
                 THEN /\ nodes[i].isTerminal = ~ListedAfter(nodes[i].id)
                      /\ [nodes[i] EXCEPT !.isTerminal = FALSE] =
                         [NodeOf(nodesBefore, nodes[i].id) EXCEPT !.isTerminal = FALSE]
                 ELSE nodes[i] = NodeOf(nodesBefore, nodes[i].id)
        /\ Len(nodes) = Len(nodesBefore) - 1

\* the node a condition side names is a parameter node of the graph
NamesParameter(ns, side) ==
    /\ side.kind = "input"
    /\ HasNode(ns, side.input)
    /\ NodeOf(ns, side.input).type = "expression"
    /\ NodeOf(ns, side.input).metadata.isParameter

\* a side of a condition after the pass: as it was, or, if it named a
\* parameter node, the placeholder of that node
SideAsSpecified(ns, before, after) ==
    \/ after = before
    \/ /\ NamesParameter(ns, before)
       /\ after = ParameterSide(NodeOf(ns, before.input).expression[1].value.str)

\* C20: inlineParameters, as optimize() runs it, leaves every side of a filter
\* condition as it was (same input, same metric) unless the side's input is a
\* parameter node, in which case the side becomes {parameter: placeholder};
\* the op of the condition is unchanged.
C20_InlineOnlyParameterSides ==
    pc = "optimized" =>
        \A i \in 1..Len(stages.deduped) :
            (stages.deduped[i].condition # <<>>
                /\ HasNode(stages.inlined, stages.deduped[i].id)) =>
            With([before \in {stages.deduped[i].condition[1]} |->
            With([after \in {NodeOf(stages.inlined, stages.deduped[i].id).condition[1]} |->
                /\ after.op = before.op
                /\ SideAsSpecified(stages.deduped, before.left, after.left)
                /\ SideAsSpecified(stages.deduped, before.right, after.right)])])

\* a composite-filter node the pass may remove: one input, operator and / or
Degenerate(n) ==
    n.type = "composite-filter" /\ Len(n.inputs) = 1 /\ n.operator \in {"and", "or"}

\* the nodes of ns that the later graph no longer holds
RemovedBetween(ns, later) == {n \in Range(ns) : ~HasNode(later, n.id)}

\* every node that listed n before lists n's only input afterwards
ConsumesChild(ns, later, n) ==
    \A d \in Range(ns) :
        (Includes(d.inputs, n.id) /\ HasNode(later, d.id)) =>
            /\ ~Includes(NodeOf(later, d.id).inputs, n.id)
            /\ Includes(NodeOf(later, d.id).inputs, n.inputs[1])

\* C21: removeUselessCompositeFilters, as optimize() runs it, removes only
\* composite-filter nodes with exactly one input and operator and / or (a `not`
\* over one child stays), and every dependent of a removed node lists the
\* child afterwards.
C21_OnlyDegenerateSpliced ==
    pc = "optimized" =>
        \A n \in RemovedBetween(stages.merged, stages.spliced) :
            Degenerate(n) /\ ConsumesChild(stages.merged, stages.spliced, n)

\* the filter and composite-filter nodes of ns whose sorted inputs are those of n
SameInputsAs(ns, n) ==
    {m \in Range(ns) : IsFilterType(m) /\ SortIds(m.inputs) = SortIds(n.inputs)}

\* the nodes the pass added
AddedBetween(ns, later) == {n \in Range(later) : ~HasNode(ns, n.id)}

\* the composites `and` the pass added over the sorted inputs of n
MergedFor(ns, later, n) ==
    {c \in AddedBetween(ns, later) :
        /\ c.type = "composite-filter"
        /\ c.operator = "and"
        /\ SortIds(c.inputs) = SortIds(n.inputs)}

\* one new composite for the set of n, the set removed, its dependents re-wired
MergedAsSpecified(ns, later, n) ==
    /\ Cardinality(MergedFor(ns, later, n)) = 1
    /\ \A m \in SameInputsAs(ns, n) : ~HasNode(later, m.id)
    /\ \A m \in SameInputsAs(ns, n) : \A d \in Range(ns) :
          (Includes(d.inputs, m.id) /\ HasNode(later, d.id)) =>
              /\ ~Includes(NodeOf(later, d.id).inputs, m.id)
              /\ \E c \in MergedFor(ns, later, n) :
                    Includes(NodeOf(later, d.id).inputs, c.id)

\* a filter that shares its inputs with none stays: the same node, but for an
\* input that named a merged filter and names a new composite instead
LoneFilterKept(ns, later, n) ==
    /\ HasNode(later, n.id)
    /\ [NodeOf(later, n.id) EXCEPT !.inputs = <<>>] = [n EXCEPT !.inputs = <<>>]
    /\ Len(NodeOf(later, n.id).inputs) = Len(n.inputs)
    /\ \A k \in 1..Len(n.inputs) :
          \/ NodeOf(later, n.id).inputs[k] = n.inputs[k]
          \/ /\ ~HasNode(later, n.inputs[k])
             /\ \E c \in AddedBetween(ns, later) : NodeOf(later, n.id).inputs[k] = c.id

\* C22: mergeFilters, as optimize() runs it, replaces each set of two or more
\* filter or composite-filter nodes with the same sorted inputs by exactly one
\* new composite-filter `and` over those inputs, removes the nodes of the set
\* and re-wires their dependents to the new node; a filter that shares its
\* inputs with no other filter stays as it was, re-wired inputs apart.
C22_FiltersMerged ==
    pc = "optimized" =>
        \A n \in Range(stages.inlined) :
            IsFilterType(n) =>
                IF Cardinality(SameInputsAs(stages.inlined, n)) >= 2
                THEN MergedAsSpecified(stages.inlined, stages.merged, n)
                ELSE LoneFilterKept(stages.inlined, stages.merged, n)

\* the clause words of a SELECT, in the order the statement must have them
ClauseWords ==
    <<"SELECT", "FROM", "PREWHERE", "WHERE", "QUALIFY", "GROUP BY", "ORDER BY", "LIMIT">>

\* the positions of sql where a line starts, blanks skipped, with the word
ClauseStarts(sql, word) ==
    {i \in 1..Len(sql) :
        /\ i = 1 \/ CharAt(sql, i - 1) = "\n"
        /\ OccursAt(sql, word \o " ", SkipBlanks(sql, i))}

ClausesInOrder(sql) ==
    \A a, b \in 1..Len(ClauseWords) :
        a < b => \A i \in ClauseStarts(sql, ClauseWords[a]),
                    j \in ClauseStarts(sql, ClauseWords[b]) : i < j

\* the text of the main query: the statement without its WITH list
MainQueryText(out) ==
    With([with \in {IF out.ctes = <<>> THEN ""
              ELSE "WITH " \o JoinStr(Array([i \in 1..Len(out.ctes) |-> out.ctes[i].sql]),
                                      ",\n") \o "\n"} |->
        SubSeq(out.query, Len(with) + 1, Len(out.query))])

\* C23: in the main query and in each CTE body of an emitted statement, the
\* clauses present come in the order SELECT, FROM, PREWHERE, WHERE, QUALIFY,
\* GROUP BY, ORDER BY, LIMIT.
C23_ClauseOrder ==
    (pc = "translated" /\ sqlOut.err = "") =>
        /\ ClausesInOrder(MainQueryText(sqlOut))
        /\ \A i \in 1..Len(sqlOut.ctes) : ClausesInOrder(sqlOut.ctes[i].sql)

\* a projection of ns, off the given table, has a column of the given name
ProjectsColumn(ns, table, col) ==
    \E i \in ProjectionsOff(ns, table) :
        \E j \in 1..Len(ns[i].columns) : ns[i].columns[j].name = col

\* the graph ensureRequiredColumns() ran on, in the constructor and at the end
\* of optimize(false)
BeforeRequiredColumns == IF pc = "constructed" THEN stages.joined ELSE stages.distinct

\* C24: each projection that ensureRequiredColumns adds, in the constructor or
\* in optimize(), is for a column that no projection off the same table had
\* before the pass, whether that projection still lists the source node or
\* lists the join node since join inference.
C24_RequiredColumnAddedOnce ==
    (pc = "constructed" \/ (pc = "optimized" /\ ~risky)) =>
        \A p \in AddedBetween(BeforeRequiredColumns, nodes) :
            ~ProjectsColumn(BeforeRequiredColumns,
                            NodeOf(nodes, p.inputs[1]).table, p.columns[1].name)

\* the tables of the source nodes of a graph
SourceTables(ns) == {n.table : n \in {m \in Range(ns) : m.type = "source"}}

\* two tables the graph reads have no primary key in common
LacksCommonKey(ns, cfg) ==
    \E t1, t2 \in SourceTables(ns) :
        /\ t1 # t2
        /\ Range(cfg.tables[t1].primaryKeys) \cap Range(cfg.tables[t2].primaryKeys) = {}

\* C25: when two of the tables the lowered query reads share no primary key,
\* the constructor's inferJoins() throws the no-common-key error and the graph
\* is then as the lowering left it: no join node, no re-wired reference, no
\* changed isTerminal flag, counters untouched.
C25_NoCommonKeyLeavesGraph ==
    (pc \in {"constructed", "optimized", "failed"}
        /\ LacksCommonKey(stages.lowered, config)) =>
        /\ pc = "failed"
        /\ error = "NoCommonPK"
        /\ nodes = stages.lowered
        /\ nodeTypesCounter["join"] = 0

\* a query over both tables under a config whose tables share no key
C25_Witness ==
    /\ pc = "failed"
    /\ error = "NoCommonPK"
    /\ Cardinality(SourceTables(nodes)) = 2
    /\ \E n \in Range(nodes) : n.type = "projection" /\ ~n.isTerminal

\* the node ids a node refers to: inputs, condition sides, sort criteria and
\* the sourceNode of projection columns
RefersTo(n, id) ==
    \/ Includes(n.inputs, id)
    \/ \E k \in 1..Len(n.condition) :
          \/ n.condition[k].left.kind = "input" /\ n.condition[k].left.input = id
          \/ n.condition[k].right.kind = "input" /\ n.condition[k].right.input = id
    \/ \E k \in 1..Len(n.criteria) : n.criteria[k].expression = NodeRef(id)
    \/ \E k \in 1..Len(n.columns) : n.columns[k].sourceNode = <<id>>

\* a condition side after replaceNodeID: one that named old names new, under
\* the alias if one was passed and under its own metric otherwise
SideReplaced(before, after, call) ==
    IF before.kind = "input" /\ before.input = call.oldId
    THEN /\ after.kind = "input"
         /\ after.input = call.newId
         /\ after.metric = IF call.oldAlias # <<>> THEN call.oldAlias[1]
                           ELSE before.metric
    ELSE after = before

\* C26: after replaceNodeID(old, new, alias?) no node but new refers to old,
\* in its inputs, in a condition side, in a sort criterion or in a column's
\* sourceNode; a node that referred to old refers to new; a re-written
\* condition side keeps its metric unless an alias was passed.
C26_ReplaceNodeIDRewrites ==
    pc = "replaced" =>
        \A i \in 1..Len(nodes) :
            nodes[i].id # calls[1].newId =>
                /\ ~RefersTo(nodes[i], calls[1].oldId)
                /\ RefersTo(nodesBefore[i], calls[1].oldId) =>
                      RefersTo(nodes[i], calls[1].newId)
                /\ \A k \in 1..Len(nodes[i].condition) :
                      /\ SideReplaced(nodesBefore[i].condition[k].left,
                                      nodes[i].condition[k].left, calls[1])
                      /\ SideReplaced(nodesBefore[i].condition[k].right,
                                      nodes[i].condition[k].right, calls[1])

\* a call with an alias after which a filter side that named old names new
\* under the alias
C26_Witness ==
    /\ pc = "replaced"
    /\ calls[1].oldAlias = <<"renamed">>
    /\ \E i \in 1..Len(nodes) :
          /\ nodes[i].id # calls[1].newId
          /\ nodes[i].condition # <<>>
          /\ nodesBefore[i].condition[1].left = InputSide(calls[1].oldId, IdStr(calls[1].oldId))
          /\ nodes[i].condition[1].left = InputSide(calls[1].newId, "renamed")

\* the ids generateNodeID has returned so far in this graph
GeneratedIds ==
    UNION {{<<t, k>> : k \in 1..nodeTypesCounter[t]} : t \in NodeTypes}

\* the nodes of the graph and of its earlier stages carry generated ids
IdsAreGenerated ==
    \A ns \in {nodes, nodesBefore, stages.lowered, stages.joined, stages.deduped,
               stages.inlined, stages.merged, stages.spliced, stages.distinct} :
        \A n \in Range(ns) : n.id \in GeneratedIds

\* a step leaves no counter lower, and a node it adds has an id above the
\* counter of its type before the step
CountersOnlyIncrease ==
    /\ \A t \in NodeTypes : nodeTypesCounter'[t] >= nodeTypesCounter[t]
    /\ \A n \in Range(nodes') :
          ~HasNode(nodes, n.id) => n.id[2] > nodeTypesCounter[n.id[1]]

\* C27: within one graph generateNodeID never returns the same id twice, also
\* after removals: every id in the graph or in an earlier stage of it is at
\* most the counter of its type, no step lowers a counter, a node added by a
\* step has an id above the counter before the step, and the rendered ids of
\* different types differ.
C27_IdsNeverReused ==
    /\ [](IdsAreGenerated /\ \A a, b \in GeneratedIds : IdStr(a) = IdStr(b) => a = b)
    /\ [][CountersOnlyIncrease]_vars

\* an optimize() that removed a node and added a node of the same type
C27_Witness ==
    /\ pc = "optimized"
    /\ \E old \in Range(nodesBefore), new \in Range(nodes) :
          /\ ~HasNode(nodes, old.id)
          /\ ~HasNode(nodesBefore, new.id)
          /\ old.id[1] = new.id[1]
          /\ new.id[2] > old.id[2]

\* the filter nodes whose sql became a conjunct of a CTE body or of the main
\* query, one entry per conjunct
AppliedFilters ==
    Flatten(Array([i \in 1..Len(sqlOut.ctes) |-> sqlOut.ctes[i].applied])) \o sqlOut.applied

\* the sql of node a holds the predicate of the simple filter f
RECURSIVE HoldsPredicateOf(_, _)
HoldsPredicateOf(a, f) ==
    \/ a = f
    \/ /\ HasNode(nodes, a)
       /\ NodeOf(nodes, a).type = "composite-filter"
       /\ \E i \in 1..Len(NodeOf(nodes, a).inputs) :
             HoldsPredicateOf(NodeOf(nodes, a).inputs[i], f)

\* the conjuncts that hold the predicate of f
TimesEmitted(f) ==
    Cardinality({i \in 1..Len(AppliedFilters) : HoldsPredicateOf(AppliedFilters[i], f)})

ChildOfComposite(f) ==
    \E c \in Range(nodes) : c.type = "composite-filter" /\ Includes(c.inputs, f)

\* C28: in the emitted SQL every simple filter node of the graph has its
\* predicate in exactly one conjunct, and a filter that is a child of a
\* composite filter is no conjunct of a CTE body or of the main query itself.
C28_PredicateEmittedOnce ==
    pc = "translated" =>
        \A n \in Range(nodes) :
            n.type = "filter" =>
                /\ TimesEmitted(n.id) = 1
                /\ ChildOfComposite(n.id) => ~Includes(AppliedFilters, n.id)

\* the graph and the parameter table new ComputeGraph(query) builds
BuiltFrom(query) ==
    With([built \in {processUserQuery(config, query)} |->
        [nodes |-> built.g.nodes, parameters |-> built.g.parameters, err |-> built.g.err]])

\* C29: constructing a ComputeGraph from a UserQuery, optimizing it and emitting
\* SQL leaves the UserQuery as it was received, and a second ComputeGraph made
\* from the same UserQuery object has the graph and the parameter table of
\* the first.
C29_UserQueryUnchanged ==
    pc \in {"constructed", "optimized", "translated"} =>
        /\ userQuery = request
        /\ BuiltFrom(userQuery) = BuiltFrom(request)

\* the aggregate expression nodes the duplicate-expression pass of the last
\* optimize() removed
DuplicatesRemoved ==
    {n \in RemovedBetween(stages.spliced, stages.distinct) : IsAggregateNode(n)}

\* s survives the pass and computes what n computed
SurvivesFor(s, n) ==
    /\ IsAggregateNode(s)
    /\ s.expression[1].aggregation = n.expression[1].aggregation
    /\ s.expression[1].target = n.expression[1].target
    /\ s.expression[1].time_range = n.expression[1].time_range

\* C30: the duplicate-expression pass removes an aggregate expression node
\* only when a surviving node has the same aggregation, the same target and
\* the same time range, duration, unit and from/to bounds included.
C30_OnlyEqualAggregatesRemoved ==
    pc = "optimized" =>
        \A n \in DuplicatesRemoved :
            \E s \in Range(stages.distinct) : SurvivesFor(s, n)

====
